---- MODULE Spec2Model ----
(***************************************************************************)
(* The fname rename protocol of itzlambda/fname-update:                    *)
(*   - executeFnameRename (src/lib/farcasterUtils.ts), the direct path;    *)
(*   - the page flow handleActualRename / handleRename, which signs in     *)
(*     the browser and relays the two submissions through POST /api/rename;*)
(*   - the external fname directory, an append-only transfer log.          *)
(*                                                                         *)
(* Strings are sequences of tokens.  A handle is a sequence of one-char    *)
(* tokens; a message is the concatenation of the literal pieces of the     *)
(* source's template string with the interpolated values.                  *)
(***************************************************************************)
EXTENDS Integers, Sequences, FiniteSets, TLC

(* ----------------------------- bounds -------------------------------- *)
\* transfers a concurrent renamer makes
MaxOther == 1
\* rename attempts explored in one page session
MaxAttempts == 2
\* Date.now() reads 1000 ms plus a multiple of 500 ms, up to 500 * MaxTicks
MaxTicks == 2

(* ------------------------- values and inputs -------------------------- *)
\* JavaScript null (no current fname)
Null == <<"null">>

\* the identifier of the user of this page, and of a concurrent renamer
Fid == 1
OtherFid == 2

\* the connected wallet address
Owner == <<"0xA11ce">>

Handles == {<<"a">>, <<"b">>}

\* Date.now(): any reading, in milliseconds; consecutive readings are unrelated,
\* so the clock may stand still, advance or move backward between two of them
ClockMs == {1000 + 500 * k : k \in 0..MaxTicks}

\* Math.floor(ms / 1000)
UnixSeconds(ms) == ms \div 1000

Max(a, b) == IF a >= b THEN a ELSE b

\* every status below 500 taken for a success
IsOk_Lenient(status) == status >= 200 /\ status <= 499

\* response.ok
IsOk(status) == status >= 200 /\ status <= 299

(* ------------------------- the fname directory ------------------------ *)
VARIABLES
  transfers      \* the directory's append-only log of transfer records

Transfer(name, from, to, ts) ==
  [username |-> name, from |-> from, to |-> to, timestamp |-> ts]

\* positions of the records of a name
RecordsOf(log, name) == {i \in 1..Len(log) : log[i].username = name}

LastIndex(S) == CHOOSE i \in S : \A j \in S : j <= i

\* the identifier holding a name in the directory, 0 when nobody does
OwnerOf(log, name) ==
  IF RecordsOf(log, name) = {} THEN 0 ELSE log[LastIndex(RecordsOf(log, name))].to

\* the names an identifier holds in the directory
NamesOf(log, fid) == {h \in Handles : OwnerOf(log, h) = fid}

\* the directory's own acceptance rule: a release needs the releasing identifier to
\* hold the name, a claim needs the name free and the claimer without a name
Acceptable(log, body) ==
  IF body.to = 0
    THEN body.from # 0 /\ OwnerOf(log, body.name) = body.from
    ELSE /\ body.from = 0
         /\ body.name \in Handles
         /\ OwnerOf(log, body.name) = 0
         /\ NamesOf(log, body.to) = {}

Append1(log, body) ==
  Append(log, Transfer(body.name, body.from, body.to, body.timestamp))

(* --------------------- farcasterUtils.ts: lookups --------------------- *)
\* Array.prototype.sort((a, b) => b.timestamp - a.timestamp): stable, descending
RECURSIVE SortDesc(_)
SortDesc(list) ==
  IF list = <<>> THEN <<>>
  ELSE LET rest == SortDesc(Tail(list))
           x == Head(list)
           \* x stood before every element of rest: it stays before its equals
           ahead == {i \in 1..Len(rest) : rest[i].timestamp > x.timestamp}
           k == IF ahead = {} THEN 0 ELSE LastIndex(ahead)
       IN  SubSeq(rest, 1, k) \o <<x>> \o SubSeq(rest, k + 1, Len(rest))

\* the oldest record to the fid rather than the latest
FindTo_Oldest(sorted, fid) ==
  LET hits == {i \in 1..Len(sorted) : sorted[i].to = fid}
  IN  IF hits = {} THEN Null
      ELSE sorted[CHOOSE i \in hits : \A j \in hits : j <= i].username

\* sortedTransfers.find(t => t.to === fid)
FindTo(sorted, fid) ==
  LET hits == {i \in 1..Len(sorted) : sorted[i].to = fid}
  IN  IF hits = {} THEN Null
      ELSE sorted[CHOOSE i \in hits : \A j \in hits : i <= j].username

\* GET /transfers?fid=: the records the identifier took part in
TransfersOfFid(log, fid) ==
  SelectSeq(log, LAMBDA t : t.from = fid \/ t.to = fid)

\* the responses the directory can give to GET /transfers?fid=
\* (listed: the body has a transfers field)
FidLookupResponses(log, fid) ==
  { [kind |-> "resp", status |-> 200, listed |-> TRUE,
     transfers |-> TransfersOfFid(log, fid)],
    [kind |-> "resp", status |-> 200, listed |-> FALSE, transfers |-> <<>>],
    [kind |-> "resp", status |-> 404, listed |-> FALSE, transfers |-> <<>>],
    [kind |-> "resp", status |-> 500, listed |-> FALSE, transfers |-> <<>>],
    [kind |-> "throw", status |-> 0, listed |-> FALSE, transfers |-> <<>>] }

\* every status that is not a success is answered with none
getCurrentFnameFromFid_SwallowsErrors(fid, resp) ==
  IF fid <= 0 \/ resp.kind = "throw" \/ ~IsOk(resp.status) \/ ~resp.listed
       \/ Len(resp.transfers) = 0
    THEN [threw |-> FALSE, value |-> Null]
  ELSE [threw |-> FALSE, value |-> FindTo(SortDesc(resp.transfers), fid)]

\* getCurrentFnameFromFid after the fetch: the fname, Null, or a thrown error
getCurrentFnameFromFid(fid, resp) ==
  IF fid <= 0 THEN [threw |-> FALSE, value |-> Null]
  ELSE IF resp.kind = "throw" THEN [threw |-> TRUE, value |-> Null]
  ELSE IF ~IsOk(resp.status)
    THEN IF resp.status = 404 THEN [threw |-> FALSE, value |-> Null]
         ELSE [threw |-> TRUE, value |-> Null]
  ELSE IF ~resp.listed \/ Len(resp.transfers) = 0 THEN [threw |-> FALSE, value |-> Null]
  ELSE LET sortedTransfers == SortDesc(resp.transfers)
           latestTransfer == sortedTransfers[1]
       IN  IF latestTransfer.from = fid /\ latestTransfer.to = 0
             THEN [threw |-> FALSE, value |-> Null]
             ELSE [threw |-> FALSE, value |-> FindTo(sortedTransfers, fid)]

\* String.prototype.toLowerCase on the characters the model uses
LowerChar(c) == IF c = "A" THEN "a" ELSE IF c = "B" THEN "b" ELSE IF c = "C" THEN "c" ELSE c
toLowerCase(s) == [i \in 1..Len(s) |-> LowerChar(s[i])]

\* the responses the directory can give to GET /transfers?name=
NameLookupResponses(log, name) ==
  ( IF RecordsOf(log, name) = {}
      THEN { [kind |-> "resp", status |-> 404, hasTransfer |-> FALSE, to |-> 0],
             [kind |-> "resp", status |-> 200, hasTransfer |-> FALSE, to |-> 0] }
      ELSE { [kind |-> "resp", status |-> 200, hasTransfer |-> TRUE,
              to |-> log[LastIndex(RecordsOf(log, name))].to] } )
  \cup { [kind |-> "resp", status |-> 500, hasTransfer |-> FALSE, to |-> 0],
         [kind |-> "throw", status |-> 0, hasTransfer |-> FALSE, to |-> 0] }

\* any record of the name counts as taken, a release included
isUsernameTaken_AnyRecord(resp) ==
  IF resp.kind = "throw" THEN "throw"
  ELSE IF resp.status = 404 THEN "false"
  ELSE IF ~IsOk(resp.status) THEN "throw"
  ELSE IF resp.hasTransfer THEN "true" ELSE "false"

\* a 404 read as taken
isUsernameTaken_404Taken(resp) ==
  IF resp.kind = "throw" THEN "throw"
  ELSE IF resp.status = 404 THEN "true"
  ELSE IF ~IsOk(resp.status) THEN "throw"
  ELSE IF resp.hasTransfer /\ resp.to # 0 THEN "true" ELSE "false"

\* isUsernameTaken after the fetch: "true", "false" or "throw"
isUsernameTaken(resp) ==
  IF resp.kind = "throw" THEN "throw"
  ELSE IF resp.status = 404 THEN "false"
  ELSE IF ~IsOk(resp.status) THEN "throw"
  ELSE IF resp.hasTransfer /\ resp.to # 0 THEN "true" ELSE "false"

(* ----------------- farcasterUtils.ts: generateSignature ---------------- *)
Includes(msg, tok) == \E i \in 1..Len(msg) : msg[i] = tok

\* what a signature authorizes: the claim {name, timestamp, owner} it was made over
Sig(fname, owner, timestamp) ==
  [name |-> fname, owner |-> owner, timestamp |-> timestamp]

NoSig == [name |-> <<>>, owner |-> <<>>, timestamp |-> 0]

\* what signUserNameProofClaim can do: resolve to a signature, resolve to an error
\* result (isErr), or throw (an Error or not, with or without a wallet error code)
SignOutcomes ==
  { [kind |-> "ok", isError |-> FALSE, code |-> "none", message |-> <<>>],
    [kind |-> "err", isError |-> TRUE, code |-> "none",
     message |-> <<"User ", "rejected", " the request">>],
    [kind |-> "err", isError |-> TRUE, code |-> "none", message |-> <<"boom">>],
    [kind |-> "throw", isError |-> TRUE, code |-> "4001", message |-> <<"denied">>],
    [kind |-> "throw", isError |-> TRUE, code |-> "none", message |-> <<"boom">>],
    [kind |-> "throw", isError |-> FALSE, code |-> "ACTION_REJECTED", message |-> <<>>] }

FailedToSign == <<"Failed to sign the message.">>
RejectedByUser == <<"Signature request rejected by user.">>

\* the catch block of generateSignature, given the caught error
SignCatch(isError, code, message) ==
  LET detail0 == IF isError THEN message ELSE <<>>
      rejected == code \in {"4001", "ACTION_REJECTED"}
      errorMessage == IF rejected THEN RejectedByUser ELSE FailedToSign
      detail == IF rejected THEN <<>> ELSE detail0
  IN  IF detail # <<>> THEN errorMessage \o <<": ">> \o detail ELSE errorMessage

\* the timestamp returned is a clock reading of its own, one second later
generateSignature_OwnClock(fname, owner, timestamp, hasWallet, outcome) ==
  IF ~hasWallet
    THEN [threw |-> TRUE, message |-> <<"Wallet client not provided.">>,
          signature |-> NoSig, timestamp |-> 0]
  ELSE IF outcome.kind = "ok"
    THEN [threw |-> FALSE, message |-> <<>>,
          signature |-> Sig(fname, owner, timestamp), timestamp |-> timestamp + 1]
  ELSE [threw |-> TRUE, message |-> SignCatch(outcome.isError, outcome.code, outcome.message),
        signature |-> NoSig, timestamp |-> 0]

\* generateSignature(fname, owner, timestamp, walletClient)
generateSignature(fname, owner, timestamp, hasWallet, outcome) ==
  IF ~hasWallet
    THEN [threw |-> TRUE, message |-> <<"Wallet client not provided.">>,
          signature |-> NoSig, timestamp |-> 0]
  ELSE IF outcome.kind = "ok"
    THEN [threw |-> FALSE, message |-> <<>>,
          signature |-> Sig(fname, owner, timestamp), timestamp |-> timestamp]
  ELSE IF outcome.kind = "err"
    \* thrown inside the try block, so the catch block below wraps it again
    THEN LET errorMessage ==
               IF Includes(outcome.message, "rejected") \/ Includes(outcome.message, "4001")
                 THEN RejectedByUser ELSE FailedToSign
             thrown == errorMessage \o <<": ">> \o outcome.message
         IN  [threw |-> TRUE, message |-> SignCatch(TRUE, "none", thrown),
              signature |-> NoSig, timestamp |-> 0]
  ELSE [threw |-> TRUE, message |-> SignCatch(outcome.isError, outcome.code, outcome.message),
        signature |-> NoSig, timestamp |-> 0]

(* --------------------- POST /transfers and its errors ------------------ *)
\* the body of a POST to the directory
Body(name, owner, signature, from, to, timestamp, fid) ==
  [name |-> name, owner |-> owner, signature |-> signature,
   from |-> from, to |-> to, timestamp |-> timestamp, fid |-> fid]

\* response bodies of the directory: JSON with message, JSON with error only,
\* JSON with neither, and text that is not JSON
ResponseTexts ==
  { [json |-> TRUE, message |-> <<"bad signature">>, error |-> <<>>],
    [json |-> TRUE, message |-> <<>>, error |-> <<"conflict">>],
    [json |-> TRUE, message |-> <<>>, error |-> <<>>],
    [json |-> FALSE, message |-> <<>>, error |-> <<>>] }

\* errorJson.message || errorJson.error || errorDetail
ErrorDetail(text, fallback) ==
  IF text.json /\ text.message # <<>> THEN text.message
  ELSE IF text.json /\ text.error # <<>> THEN text.error
  ELSE fallback

\* the message of a rejected fetch (TypeError: fetch failed)
FetchFailed == <<"fetch failed">>

(* ------------------------------ messages ------------------------------- *)
\* `Username "${newFname}" is already taken.`
TakenMessage(new) == <<"Username \"">> \o new \o <<"\" is already taken.">>

\* executeFnameRename: the error thrown when release signing fails
ExecReleaseSigMessage(cur, inner) ==
  <<"Failed to get release signature for ">> \o cur \o <<": ">> \o inner

\* executeFnameRename: the error thrown when claim signing fails
ExecClaimSigMessage(new, inner) ==
  <<"Failed to get claim signature for ">> \o new \o <<": ">> \o inner

\* executeFnameRename: the error thrown on a non-2xx release response
ExecReleaseFailedMessage(status, text) ==
  <<"Failed to release username: ">>
    \o ErrorDetail(text, <<"API returned status ", ToString(status), ".">>)

\* a claim failure reported like any other failure, the release left out
ExecClaimFailedMessage_Generic(cur, new, status, text) ==
  <<"Failed to claim username: ">>
    \o ErrorDetail(text, <<"API returned status ", ToString(status), ".">>)

\* executeFnameRename: the error thrown on a non-2xx claim response
ExecClaimFailedMessage(cur, new, status, text) ==
  <<"Released ">> \o cur \o <<", but failed to claim ">> \o new \o <<": ">>
    \o ErrorDetail(text, <<"API returned status ", ToString(status), ".">>)

\* POST /api/rename: the error thrown on a non-2xx release response
ApiReleaseFailedMessage(status, text) ==
  <<"Failed to delete username: ">>
    \o ErrorDetail(text, <<"Farcaster API returned status ", ToString(status), ".">>)

\* POST /api/rename: the error thrown on a non-2xx claim response
ApiClaimFailedMessage(cur, new, status, text) ==
  <<"Deleted ">> \o cur \o <<", but failed to register ">> \o new \o <<": ">>
    \o ErrorDetail(text, <<"Farcaster API returned status ", ToString(status), ".">>)

\* the page's toast for a failed attempt
ToastMessage(message) == <<"Rename failed: ">> \o message

(* ------------------------------ validation ----------------------------- *)
LowerAlnum ==
  {"a", "b", "c", "d", "e", "f", "g", "h", "i", "j", "k", "l", "m", "n", "o", "p", "q",
   "r", "s", "t", "u", "v", "w", "x", "y", "z", "0", "1", "2", "3", "4", "5", "6", "7",
   "8", "9"}

\* one more character allowed: {0,16}
fnameRegex_Longer(fname) ==
  /\ Len(fname) >= 1
  /\ Len(fname) <= 17
  /\ fname[1] \in LowerAlnum
  /\ \A i \in 2..Len(fname) : fname[i] \in LowerAlnum \cup {"-"}

\* /^[a-z0-9][a-z0-9-]{0,15}$/.test(fname)
fnameRegex(fname) ==
  /\ Len(fname) >= 1
  /\ Len(fname) <= 16
  /\ fname[1] \in LowerAlnum
  /\ \A i \in 2..Len(fname) : fname[i] \in LowerAlnum \cup {"-"}

startsWith(fname, c) == Len(fname) >= 1 /\ fname[1] = c
endsWith(fname, c) == Len(fname) >= 1 /\ fname[Len(fname)] = c

\* ConfirmationDialog: isValidFname
isValidFname(fname) ==
  fnameRegex(fname) /\ ~startsWith(fname, "-") /\ ~endsWith(fname, "-")

\* validateNewFname: its third check, of the format
formatCheck(fname) ==
  ~(~fnameRegex(fname) \/ startsWith(fname, "-") \/ endsWith(fname, "-"))

\* the page: validateNewFname (the toasts aside)
validateNewFname(current, fname) ==
  /\ fname # <<>>
  /\ current # fname
  /\ formatCheck(fname)

\* viem isAddress
isAddress(owner) == owner = Owner

\* the request body of POST /api/rename
Payload(cur, new, fid, owner, dSig, dTs, rSig, rTs) ==
  [unparsable |-> FALSE, currentFname |-> cur, newFname |-> new, fid |-> fid,
   owner |-> owner, deleteSignature |-> dSig, deleteTimestamp |-> dTs,
   registerSignature |-> rSig, registerTimestamp |-> rTs]

NoPayload == Payload(<<>>, <<>>, 0, <<>>, NoSig, 0, NoSig, 0)

\* the schema of newFname: min(1), the regex, the refinement on hyphens
newFnameSchema(fname) ==
  /\ Len(fname) >= 1
  /\ fnameRegex(fname)
  /\ ~startsWith(fname, "-") /\ ~endsWith(fname, "-")

\* the schema also asks for registerTimestamp > deleteTimestamp
renameRequestSchema_OrdersTimestamps(p) ==
  (IF p.currentFname # <<>> THEN {} ELSE {"currentFname"})
  \cup (IF newFnameSchema(p.newFname) THEN {} ELSE {"newFname"})
  \cup (IF p.fid > 0 THEN {} ELSE {"fid"})
  \cup (IF isAddress(p.owner) THEN {} ELSE {"owner"})
  \cup (IF p.deleteTimestamp > 0 THEN {} ELSE {"deleteTimestamp"})
  \cup (IF p.registerTimestamp > p.deleteTimestamp THEN {} ELSE {"registerTimestamp"})

\* renameRequestSchema.safeParse: the paths that fail (z.custom() without a check
\* accepts every value, so the two signatures never fail)
renameRequestSchema(p) ==
  (IF Len(p.currentFname) >= 1 THEN {} ELSE {"currentFname"})
  \cup (IF newFnameSchema(p.newFname) THEN {} ELSE {"newFname"})
  \cup (IF p.fid > 0 THEN {} ELSE {"fid"})
  \cup (IF isAddress(p.owner) THEN {} ELSE {"owner"})
  \cup (IF p.deleteTimestamp > 0 THEN {} ELSE {"deleteTimestamp"})
  \cup (IF p.registerTimestamp > 0 THEN {} ELSE {"registerTimestamp"})

(* ------------------------------- state --------------------------------- *)
VARIABLES
  pageVersion,          \* "hook": Home with useFarcasterIdentity; "inline": app/page.tsx
  currentFname,         \* the page's current fname (fetchedCurrentFname), or Null
  newFname,             \* the page's new-fname input
  isLoading,            \* the page's isLoading flag
  isConfirmDialogOpen,  \* the page's confirmation dialog
  att,                  \* the locals of the rename attempt under way
  attempts              \* rename attempts started so far

vars == <<transfers, pageVersion, currentFname, newFname, isLoading,
          isConfirmDialogOpen, att, attempts>>

page == <<pageVersion, currentFname, newFname, isLoading, isConfirmDialogOpen>>

NoResponse == [kind |-> "none", status |-> 0]

\* no attempt under way
IdleAtt ==
  [flow |-> "none", pc |-> "idle",
   cur |-> <<>>, new |-> <<>>, fid |-> 0, owner |-> <<>>, hasWallet |-> FALSE,
   isTaken |-> "none",
   lookedUp |-> <<>>,     \* the name the availability lookup asked the directory about
   deleteTimestamp |-> 0, preRegisterTime |-> 0, registerTimestamp |-> 0,
   deleteSignatureData |-> [signature |-> NoSig, timestamp |-> 0],
   registerSignatureData |-> [signature |-> NoSig, timestamp |-> 0],
   payload |-> NoPayload,
   log |-> <<>>,          \* the stages started, in order
   completed |-> <<>>,    \* the stages that completed successfully, in order
   inflight |-> {},       \* the stages whose round-trip is pending
   sent |-> <<>>,         \* the bodies POSTed to the directory, in order
   apiCalls |-> 0,        \* requests made to /api/rename
   rel |-> NoResponse, claim |-> NoResponse,
   http |-> 0, httpError |-> <<>>,      \* the response of /api/rename
   result |-> "none", failedStage |-> "none", message |-> <<>>, toast |-> <<>>,
   startedPartial |-> FALSE,  \* the identifier held no name when the attempt started
   fault |-> FALSE]           \* a round-trip failed for a reason outside the protocol

\* the user types in the new-fname input: e.target.value.toLowerCase().trim()
TypedNames == Handles \cup {<<>>, <<"-", "b">>}

Init ==
  /\ transfers = <<Transfer(<<"a">>, 0, Fid, 0)>>
  /\ pageVersion \in {"hook", "inline"}
  /\ currentFname = <<"a">>
  /\ newFname = <<>>
  /\ isLoading = FALSE
  /\ isConfirmDialogOpen = FALSE
  /\ att = IdleAtt
  /\ attempts = 0

(* ------------------------- the page's handlers ------------------------- *)
\* FnameRenameForm / page.tsx: onChange of the new-fname input
SetNewFname(typed) ==
  /\ att.pc = "idle"
  /\ ~isLoading /\ currentFname # Null
  /\ newFname' = toLowerCase(typed)
  /\ UNCHANGED <<transfers, pageVersion, currentFname, isLoading, isConfirmDialogOpen,
                 att, attempts>>

\* the checks of openConfirmationDialog (the wallet is connected, the fid is known)
CanOpenDialog ==
  IF pageVersion = "hook"
    THEN currentFname # Null /\ validateNewFname(currentFname, newFname)
    ELSE /\ currentFname # Null /\ newFname # <<>> /\ currentFname # newFname
         /\ fnameRegex(newFname)
         /\ ~(startsWith(newFname, "-") \/ endsWith(newFname, "-"))

\* the Rename button ignores isLoading
RenameDisabled_IgnoresLoading ==
  \/ currentFname = Null \/ newFname = <<>>
  \/ pageVersion = "hook" /\ newFname = currentFname

\* the disabled attribute of the Rename button (the fid and the fname are loaded)
RenameDisabled ==
  \/ isLoading \/ currentFname = Null \/ newFname = <<>>
  \/ pageVersion = "hook" /\ newFname = currentFname

\* the Confirm button ignores isLoading
ConfirmDisabled_IgnoresLoading == pageVersion = "hook" /\ newFname = <<>>

\* the disabled attribute of the Confirm button (the phrase typed matches)
ConfirmDisabled == isLoading \/ (pageVersion = "hook" /\ newFname = <<>>)

\* openConfirmationDialog, from the Rename button
openConfirmationDialog ==
  /\ att.pc = "idle"
  /\ ~RenameDisabled
  /\ isConfirmDialogOpen' = (IF CanOpenDialog THEN TRUE ELSE isConfirmDialogOpen)
  /\ UNCHANGED <<transfers, pageVersion, currentFname, newFname, isLoading, att, attempts>>

\* onOpenChange(false): the dialog is dismissed
closeDialog ==
  /\ att.pc \notin {"done", "failed"}
  /\ isConfirmDialogOpen
  /\ isConfirmDialogOpen' = FALSE
  /\ UNCHANGED <<transfers, pageVersion, currentFname, newFname, isLoading, att, attempts>>

\* the attempt has ended and its caller has seen the outcome: its locals are gone
forget ==
  /\ att.pc \in {"done", "failed"}
  /\ att' = IdleAtt
  /\ UNCHANGED <<transfers, page, attempts>>

\* a page reload: a new session, whose current fname is what the lookup returns
Reload ==
  /\ att.pc = "idle"
  /\ \E resp \in FidLookupResponses(transfers, Fid) :
       currentFname' = getCurrentFnameFromFid(Fid, resp).value
  /\ newFname' = <<>>
  /\ isLoading' = FALSE
  /\ isConfirmDialogOpen' = FALSE
  /\ att' = IdleAtt
  /\ UNCHANGED <<transfers, pageVersion, attempts>>

(* ----------------------- starting a rename attempt --------------------- *)
\* the locals of an attempt whose availability check has just been sent
Started(flow, cur, new, hasWallet) ==
  [IdleAtt EXCEPT !.flow = flow, !.pc = "check", !.cur = cur, !.new = new,
                  !.fid = Fid, !.owner = Owner, !.hasWallet = hasWallet,
                  !.log = <<"check">>, !.inflight = {"check"},
                  !.startedPartial = (NamesOf(transfers, Fid) = {})]

\* what the Confirm button does: "close" or "stay" (a check of the dialog failed),
\* "abort" (handleActualRename's own check failed) or "start"
\* (conn: what the page reads from the wallet and the identity hook, and whether the
\* confirmation phrase typed in the dialog matches)
ConfirmOutcomeFor_NoFormatCheck(conn, hasWallet) ==
  IF ~conn.phrase THEN "stay"
  ELSE IF ~conn.isConnected \/ ~conn.address \/ conn.fid = 0 THEN "close"
  ELSE IF currentFname = Null \/ newFname = <<>> \/ currentFname = newFname THEN "close"
  ELSE IF pageVersion = "hook" /\ ~hasWallet THEN "abort"
  ELSE "start"

ConfirmOutcomeFor(conn, hasWallet) ==
  IF pageVersion = "hook"
    THEN IF currentFname = Null THEN "close"
         ELSE IF newFname = <<>> THEN "stay"
         ELSE IF currentFname = newFname THEN "close"
         ELSE IF ~isValidFname(newFname) THEN "stay"
         ELSE IF ~conn.phrase THEN "stay"
         ELSE IF ~conn.isConnected \/ ~conn.address \/ conn.fid = 0 \/ ~hasWallet
           THEN "abort"
         ELSE "start"
    ELSE IF ~conn.phrase THEN "stay"
         ELSE IF ~conn.isConnected \/ ~conn.address THEN "close"
         ELSE IF conn.fid = 0 THEN "close"
         ELSE IF conn.isLoadingCurrentFname THEN "close"
         ELSE IF currentFname = Null \/ newFname = <<>> \/ currentFname = newFname
           THEN "close"
         ELSE IF ~fnameRegex(newFname) THEN "close"
         ELSE IF startsWith(newFname, "-") \/ endsWith(newFname, "-") THEN "close"
         ELSE "start"

\* a connected wallet whose identifier is known, and the phrase typed as asked
Connected ==
  [isConnected |-> TRUE, address |-> TRUE, fid |-> Fid,
   isLoadingCurrentFname |-> FALSE, phrase |-> TRUE]

ConfirmOutcome(hasWallet) == ConfirmOutcomeFor(Connected, hasWallet)

\* the Confirm button: handleConfirmClick and handleActualRename up to its first
\* await (hook), handleConfirmRename and handleRename up to its first await (inline)
confirmRename(hasWallet) ==
  /\ isConfirmDialogOpen /\ ~ConfirmDisabled
  /\ att.pc = "idle" /\ attempts < MaxAttempts
  /\ LET outcome == ConfirmOutcome(hasWallet) IN
       /\ isConfirmDialogOpen' =
            (IF outcome \in {"close", "abort"} THEN FALSE
             ELSE IF outcome = "start" THEN pageVersion = "hook"
             ELSE isConfirmDialogOpen)
       /\ isLoading' = (outcome = "start")
       /\ att' = (IF outcome = "start"
                    THEN Started("page", currentFname, newFname, hasWallet) ELSE att)
       /\ attempts' = (IF outcome = "start" THEN attempts + 1 ELSE attempts)
  /\ UNCHANGED <<transfers, pageVersion, currentFname, newFname>>

\* the page is at rest: entry points that do not read the page's state are explored
\* from these states only, since they neither read nor write what the page holds
PageAtRest == newFname = <<>> /\ ~isConfirmDialogOpen

\* the new handles a caller passes to executeFnameRename: it takes any string, one
\* with an uppercase character included
CallerNames == Handles \cup {<<"B">>}

\* a call of executeFnameRename(currentFname, newFname, fid, owner, walletClient)
executeFnameRename(cur, new, hasWallet) ==
  /\ att.pc = "idle" /\ attempts < MaxAttempts /\ PageAtRest
  /\ att' = Started("execute", cur, new, hasWallet)
  /\ attempts' = attempts + 1
  /\ UNCHANGED <<transfers, page>>

\* request bodies a client of POST /api/rename can send
BasePayload ==
  Payload(<<"a">>, <<"b">>, Fid, Owner, Sig(<<"a">>, Owner, 1), 1,
          Sig(<<"b">>, Owner, 2), 2)

ApiPayloads ==
  { BasePayload,
    [BasePayload EXCEPT !.unparsable = TRUE],
    [BasePayload EXCEPT !.currentFname = <<>>],
    [BasePayload EXCEPT !.newFname = <<"-", "b">>],
    [BasePayload EXCEPT !.newFname = <<"B">>],
    [BasePayload EXCEPT !.fid = 0],
    [BasePayload EXCEPT !.owner = <<"0x1">>],
    [BasePayload EXCEPT !.deleteTimestamp = 0],
    [BasePayload EXCEPT !.registerTimestamp = 0],
    [BasePayload EXCEPT !.deleteSignature = NoSig],
    [BasePayload EXCEPT !.registerSignature = Sig(<<"b">>, Owner, 1),
                        !.registerTimestamp = 1],
    [BasePayload EXCEPT !.deleteSignature = Sig(<<"a">>, Owner, 2),
                        !.deleteTimestamp = 2,
                        !.registerSignature = Sig(<<"b">>, Owner, 1),
                        !.registerTimestamp = 1] }

\* a client sends POST /api/rename
apiRequest(p) ==
  /\ att.pc = "idle" /\ attempts < MaxAttempts /\ PageAtRest
  /\ att' = [IdleAtt EXCEPT !.flow = "api", !.pc = "apiRequest", !.payload = p,
                            !.cur = p.currentFname, !.new = p.newFname,
                            !.fid = p.fid, !.owner = p.owner, !.apiCalls = 1,
                            !.startedPartial = (NamesOf(transfers, Fid) = {})]
  /\ attempts' = attempts + 1
  /\ UNCHANGED <<transfers, page>>

(* ------------------------ how an attempt ends -------------------------- *)
\* the attempt fails at a stage with an error message (the catch of the flow)
Failed(a, stage, message, fault) ==
  [a EXCEPT !.pc = "failed", !.result = "error", !.failedStage = stage,
            !.message = message, !.inflight = {},
            !.toast = (IF a.flow = "page" THEN ToastMessage(message) ELSE <<>>),
            !.fault = (a.fault \/ fault)]

\* the finally block forgets the loading flag
Finally_KeepsLoading ==
  IF att.flow = "page"
    THEN isLoading' = isLoading /\ isConfirmDialogOpen' = FALSE
    ELSE UNCHANGED <<isLoading, isConfirmDialogOpen>>

\* the finally block of the page flow: setIsLoading(false), the dialog is closed
Finally ==
  IF att.flow = "page"
    THEN isLoading' = FALSE /\ isConfirmDialogOpen' = FALSE
    ELSE UNCHANGED <<isLoading, isConfirmDialogOpen>>

\* POST /api/rename answers: the raw client's attempt ends, the page's goes on
Responded(a, status, error, stage, fault) ==
  [a EXCEPT !.http = status, !.httpError = error, !.inflight = {},
            !.failedStage = stage, !.fault = (a.fault \/ fault),
            !.pc = (IF a.flow = "page" THEN "apiResponse"
                    ELSE IF IsOk(status) THEN "done" ELSE "failed"),
            !.result = (IF a.flow = "page" THEN "none"
                        ELSE IF IsOk(status) THEN "success" ELSE "error"),
            !.message = (IF a.flow = "page" THEN <<>> ELSE error)]

(* ------------------- the stages of a rename attempt -------------------- *)
\* the error isUsernameTaken throws
AvailabilityErrorMessage(resp) ==
  IF resp.kind = "throw" THEN FetchFailed
  ELSE <<"Failed to check username availability (status ", ToString(resp.status), ")">>

\* a stage completed successfully and the next one starts
Advance(a, stage, next) ==
  [a EXCEPT !.completed = Append(@, stage), !.log = Append(@, next),
            !.inflight = {next}, !.pc = next]

\* a lookup that threw is taken for a free name
AfterCheck_ThrowIsFree(a, isTaken, resp, nowMs) ==
  IF isTaken = "true" THEN Failed(a, "check", TakenMessage(a.new), FALSE)
  ELSE [Advance(a, "check", "signRelease") EXCEPT !.deleteTimestamp = UnixSeconds(nowMs)]

\* a taken name does not stop the attempt
AfterCheck_IgnoresTaken(a, isTaken, resp, nowMs) ==
  IF isTaken = "throw" THEN Failed(a, "check", AvailabilityErrorMessage(resp), TRUE)
  ELSE [Advance(a, "check", "signRelease") EXCEPT !.deleteTimestamp = UnixSeconds(nowMs)]

\* what follows the availability check: the attempt fails when the lookup threw or
\* the name is taken; otherwise the release timestamp is read and the release
\* signature is requested
AfterCheck(a, isTaken, resp, nowMs) ==
  IF isTaken = "throw" THEN Failed(a, "check", AvailabilityErrorMessage(resp), TRUE)
  ELSE IF isTaken = "true" THEN Failed(a, "check", TakenMessage(a.new), FALSE)
  ELSE [Advance(a, "check", "signRelease") EXCEPT !.deleteTimestamp = UnixSeconds(nowMs)]

\* isUsernameTaken(newFname) returns
availabilityReturns(resp, nowMs) ==
  /\ att.pc = "check"
  /\ resp \in NameLookupResponses(transfers, toLowerCase(att.new))
  /\ LET isTaken == isUsernameTaken(resp) IN
       att' = AfterCheck([att EXCEPT !.isTaken = isTaken,
                                     !.lookedUp = toLowerCase(att.new)],
                         isTaken, resp, nowMs)
  /\ IF att'.pc = "failed" THEN Finally ELSE UNCHANGED <<isLoading, isConfirmDialogOpen>>
  /\ UNCHANGED <<transfers, pageVersion, currentFname, newFname, attempts>>

\* the + 1 forgotten
RegisterTimestamp_NoIncrement(deleteTimestamp, nowMs) ==
  Max(deleteTimestamp, UnixSeconds(nowMs))

\* Math.max(deleteTimestamp + 1, Math.floor(Date.now() / 1000))
RegisterTimestamp(deleteTimestamp, nowMs) ==
  Max(deleteTimestamp + 1, UnixSeconds(nowMs))

\* the page always waits and takes the later reading
PageRegisterTimestamp_Recomputes(deleteTimestamp, preRegisterTime, laterMs) ==
  UnixSeconds(laterMs)

\* if (registerTimestamp === deleteTimestamp): the page waits 10 ms and reads the
\* clock again
PageWaits(deleteTimestamp, preRegisterTime) ==
  RegisterTimestamp(deleteTimestamp, preRegisterTime) = deleteTimestamp

\* the page: the same, then the wait-and-recompute branch
PageRegisterTimestamp(deleteTimestamp, preRegisterTime, laterMs) ==
  LET registerTimestamp == RegisterTimestamp(deleteTimestamp, preRegisterTime)
  IN  IF PageWaits(deleteTimestamp, preRegisterTime)
        THEN UnixSeconds(laterMs) ELSE registerTimestamp

\* a release signature in hand is POSTed though claim signing failed
SignFailed_SubmitsRelease(a, stage, message) ==
  Failed([a EXCEPT !.sent =
            IF stage = "signClaim"
              THEN Append(@, Body(a.cur, a.owner, a.deleteSignatureData.signature,
                                  a.fid, 0, a.deleteSignatureData.timestamp, a.fid))
              ELSE @],
         stage, message, TRUE)

\* a signing failure ends the attempt
SignFailed(a, stage, message) == Failed(a, stage, message, TRUE)

\* the release signature arrives (or signing fails); on success the claim timestamp
\* is computed and the claim signature is requested
signReleaseReturns(outcome, nowMs, laterMs) ==
  /\ att.pc = "signRelease"
  /\ LET r == generateSignature(att.cur, att.owner, att.deleteTimestamp,
                                att.hasWallet, outcome)
     IN  IF r.threw
           THEN att' = SignFailed(att, "signRelease",
                                  IF att.flow = "execute"
                                    THEN ExecReleaseSigMessage(att.cur, r.message)
                                    ELSE r.message)
                /\ Finally
           ELSE /\ att' = [Advance(att, "signRelease", "signClaim") EXCEPT
                             !.deleteSignatureData =
                                [signature |-> r.signature, timestamp |-> r.timestamp],
                             !.preRegisterTime =
                                IF att.flow = "execute" THEN 0 ELSE nowMs,
                             !.registerTimestamp =
                                IF att.flow = "execute"
                                  THEN RegisterTimestamp(att.deleteTimestamp, nowMs)
                                  ELSE PageRegisterTimestamp(att.deleteTimestamp, nowMs,
                                                             laterMs)]
                /\ UNCHANGED <<isLoading, isConfirmDialogOpen>>
  /\ UNCHANGED <<transfers, pageVersion, currentFname, newFname, attempts>>

\* the release transfer: {name: currentFname, from: fid, to: 0}
ReleaseBody(cur, owner, signature, timestamp, fid) ==
  Body(cur, owner, signature, fid, 0, timestamp, fid)

\* the claim transfer: {name: newFname, from: 0, to: fid}
ClaimBody(new, owner, signature, timestamp, fid) ==
  Body(new, owner, signature, 0, fid, timestamp, fid)

\* the page sends the two timestamps in each other's place
PagePayload_SwapsTimestamps(a, registerSignatureData) ==
  Payload(a.cur, a.new, a.fid, a.owner,
          a.deleteSignatureData.signature, a.registerTimestamp,
          registerSignatureData.signature, a.deleteSignatureData.timestamp)

\* the body the page sends to /api/rename
PagePayload(a, registerSignatureData) ==
  Payload(a.cur, a.new, a.fid, a.owner,
          a.deleteSignatureData.signature, a.deleteSignatureData.timestamp,
          registerSignatureData.signature,
          IF pageVersion = "hook" THEN a.registerTimestamp
          ELSE registerSignatureData.timestamp)

\* the claim POSTed first
ExecAfterClaimSigned_ClaimFirst(a, data) ==
  [Advance(a, "signClaim", "submitClaim") EXCEPT
     !.registerSignatureData = data,
     !.sent = Append(@, ClaimBody(a.new, a.owner, data.signature, data.timestamp, a.fid))]

\* the release POSTed with the claim's signature and timestamp
ExecAfterClaimSigned_SwapsSignature(a, data) ==
  [Advance(a, "signClaim", "submitRelease") EXCEPT
     !.registerSignatureData = data,
     !.sent = Append(@, ReleaseBody(a.cur, a.owner, data.signature, data.timestamp,
                                    a.fid))]

\* executeFnameRename, a claim signature in hand: the release is POSTed
ExecAfterClaimSigned(a, data) ==
  [Advance(a, "signClaim", "submitRelease") EXCEPT
     !.registerSignatureData = data,
     !.sent = Append(@, ReleaseBody(a.cur, a.owner, a.deleteSignatureData.signature,
                                    a.deleteSignatureData.timestamp, a.fid))]

\* the page, a claim signature in hand: the request to /api/rename is made
PageAfterClaimSigned(a, data) ==
  [a EXCEPT !.completed = Append(@, "signClaim"), !.inflight = {},
            !.registerSignatureData = data,
            !.payload = PagePayload(a, data),
            !.apiCalls = @ + 1, !.pc = "apiRequest"]

\* the claim signature arrives (or signing fails)
signClaimReturns(outcome) ==
  /\ att.pc = "signClaim"
  /\ LET r == generateSignature(att.new, att.owner, att.registerTimestamp,
                                att.hasWallet, outcome)
         data == [signature |-> r.signature, timestamp |-> r.timestamp]
     IN  IF r.threw
           THEN att' = SignFailed(att, "signClaim",
                                  IF att.flow = "execute"
                                    THEN ExecClaimSigMessage(att.new, r.message)
                                    ELSE r.message)
                /\ Finally
           ELSE /\ att' = (IF att.flow = "execute" THEN ExecAfterClaimSigned(att, data)
                           ELSE PageAfterClaimSigned(att, data))
                /\ UNCHANGED <<isLoading, isConfirmDialogOpen>>
  /\ UNCHANGED <<transfers, pageVersion, currentFname, newFname, attempts>>

(* ---------------------- POST /api/rename: validation ------------------- *)
\* the 400 body for a schema violation: "Invalid input: <path>: <message>, ..."
InvalidInputMessage(paths) ==
  <<"Invalid input: ">> \o [i \in 1..Cardinality(paths) |-> "<path>: <message>"]

\* the release is POSTed before the request is validated
endpointReceives_ValidatesLate ==
  /\ att.pc = "apiRequest"
  /\ LET p == att.payload
         posted == [att EXCEPT !.log = Append(@, "submitRelease"),
                               !.sent = Append(@, ReleaseBody(p.currentFname, p.owner,
                                                  p.deleteSignature, p.deleteTimestamp,
                                                  p.fid))]
     IN  att' = IF p.unparsable
                  THEN Responded(att, 400,
                                 <<"Invalid request body: Failed to parse JSON.">>,
                                 "validate", FALSE)
                ELSE IF renameRequestSchema(p) # {}
                  THEN Responded(posted, 400, InvalidInputMessage(renameRequestSchema(p)),
                                 "validate", FALSE)
                ELSE [posted EXCEPT !.inflight = {"submitRelease"},
                                    !.pc = "submitRelease"]
  /\ UNCHANGED <<transfers, page, attempts>>

\* the handler parses and validates the request; a valid one has its release POSTed
endpointReceives ==
  /\ att.pc = "apiRequest"
  /\ LET p == att.payload IN
       att' = IF p.unparsable
                THEN Responded(att, 400, <<"Invalid request body: Failed to parse JSON.">>,
                               "validate", FALSE)
              ELSE IF renameRequestSchema(p) # {}
                THEN Responded(att, 400, InvalidInputMessage(renameRequestSchema(p)),
                               "validate", FALSE)
              ELSE [att EXCEPT !.log = Append(@, "submitRelease"),
                               !.inflight = {"submitRelease"}, !.pc = "submitRelease",
                               !.sent = Append(@, ReleaseBody(p.currentFname, p.owner,
                                                  p.deleteSignature, p.deleteTimestamp,
                                                  p.fid))]
  /\ UNCHANGED <<transfers, page, attempts>>

\* the page's fetch("/api/rename") rejects: the request never reached the handler
endpointUnreachable ==
  /\ att.pc = "apiRequest" /\ att.flow = "page"
  /\ att' = Failed(att, "apiRequest", FetchFailed, TRUE)
  /\ Finally
  /\ UNCHANGED <<transfers, pageVersion, currentFname, newFname, attempts>>

(* ------------------------ the two submissions -------------------------- *)
\* the directory verifies the user signature over {name, timestamp, owner}
SignatureVerifies(body) == body.signature = Sig(body.name, body.owner, body.timestamp)

PlainText == [json |-> FALSE, message |-> <<>>, error |-> <<>>]

\* what a POST /transfers can come to: a 2xx when the directory accepts the transfer
\* and appends it, a 4xx when its rules reject it, a 5xx, or a rejected fetch (either
\* the fetch or the read of the response text throws; the directory may have
\* appended the transfer all the same)
PostOutcomes(log, body) ==
  LET accept == Acceptable(log, body) /\ SignatureVerifies(body) IN
  (IF accept
     THEN { [kind |-> "resp", status |-> 200, text |-> PlainText, applied |-> TRUE,
             fault |-> FALSE],
            [kind |-> "throw", status |-> 0, text |-> PlainText, applied |-> TRUE,
             fault |-> TRUE] }
     ELSE { [kind |-> "resp", status |-> 400, text |-> t, applied |-> FALSE,
             fault |-> FALSE] : t \in ResponseTexts })
  \cup { [kind |-> "resp", status |-> 500, text |-> PlainText, applied |-> FALSE,
          fault |-> TRUE],
         [kind |-> "throw", status |-> 0, text |-> PlainText, applied |-> FALSE,
          fault |-> TRUE] }

\* the POST in flight, and what it can come to
LastSent == att.sent[Len(att.sent)]
Outcomes == IF att.sent = <<>> THEN {} ELSE PostOutcomes(transfers, LastSent)

\* the error message of a failed release submission
ReleaseError(a, o) ==
  IF o.kind = "throw" THEN FetchFailed
  ELSE IF a.flow = "execute" THEN ExecReleaseFailedMessage(o.status, o.text)
  ELSE ApiReleaseFailedMessage(o.status, o.text)

\* the error message of a failed claim submission
ClaimError(a, o) ==
  IF o.kind = "throw" THEN FetchFailed
  ELSE IF a.flow = "execute"
    THEN ExecClaimFailedMessage(a.cur, a.new, o.status, o.text)
  ELSE ApiClaimFailedMessage(a.payload.currentFname, a.payload.newFname,
                             o.status, o.text)

\* a failed release does not stop the attempt
SubmissionFailed_Continues(a, stage, message, fault) ==
  IF stage = "submitRelease"
    THEN [a EXCEPT !.completed = Append(@, "submitRelease"), !.inflight = {},
                   !.pc = "delay"]
  ELSE IF a.flow = "execute" THEN Failed(a, stage, message, fault)
  ELSE Responded(a, 500, message, stage, fault)

\* a failed claim is POSTed once more
SubmissionFailed_Retries(a, stage, message, fault) ==
  IF stage = "submitClaim" /\ Len(a.sent) < 3
    THEN [a EXCEPT !.sent = Append(@, a.sent[Len(a.sent)]),
                   !.log = Append(@, "submitClaim"),
                   !.inflight = {"submitClaim"}, !.pc = "submitClaim"]
  ELSE IF a.flow = "execute" THEN Failed(a, stage, message, fault)
  ELSE Responded(a, 500, message, stage, fault)

\* a failed submission: executeFnameRename throws, the endpoint answers 500
SubmissionFailed(a, stage, message, fault) ==
  IF a.flow = "execute" THEN Failed(a, stage, message, fault)
  ELSE Responded(a, 500, message, stage, fault)

\* the release POST returns
releaseReturns(o) ==
  /\ att.pc = "submitRelease"
  /\ o \in Outcomes
  /\ transfers' = (IF o.applied THEN Append1(transfers, LastSent) ELSE transfers)
  /\ LET a == [att EXCEPT !.rel = [kind |-> o.kind, status |-> o.status]] IN
       att' = IF o.kind = "resp" /\ IsOk(o.status)
                THEN [a EXCEPT !.completed = Append(@, "submitRelease"),
                               !.inflight = {}, !.pc = "delay"]
                ELSE SubmissionFailed(a, "submitRelease", ReleaseError(a, o), o.fault)
  /\ UNCHANGED <<page, attempts>>

\* the delay before registration has elapsed: the claim is POSTed
delayElapses ==
  /\ att.pc = "delay"
  /\ att' = [att EXCEPT
       !.log = Append(@, "submitClaim"), !.inflight = {"submitClaim"},
       !.pc = "submitClaim",
       !.sent = Append(@,
          IF att.flow = "execute"
            THEN ClaimBody(att.new, att.owner, att.registerSignatureData.signature,
                           att.registerSignatureData.timestamp, att.fid)
            ELSE ClaimBody(att.payload.newFname, att.payload.owner,
                           att.payload.registerSignature,
                           att.payload.registerTimestamp, att.payload.fid))]
  /\ UNCHANGED <<transfers, page, attempts>>

\* the claim POST returns
claimReturns(o) ==
  /\ att.pc = "submitClaim"
  /\ o \in Outcomes
  /\ transfers' = (IF o.applied THEN Append1(transfers, LastSent) ELSE transfers)
  /\ LET a == [att EXCEPT !.claim = [kind |-> o.kind, status |-> o.status]] IN
       att' = IF o.kind = "resp" /\ IsOk(o.status)
                THEN IF a.flow = "execute"
                       THEN [a EXCEPT !.completed = Append(@, "submitClaim"),
                                      !.inflight = {}, !.pc = "done",
                                      !.result = "success"]
                       ELSE Responded([a EXCEPT !.completed = Append(@, "submitClaim")],
                                      200, <<>>, "none", FALSE)
                ELSE SubmissionFailed(a, "submitClaim", ClaimError(a, o), o.fault)
  /\ UNCHANGED <<page, attempts>>

\* the page's fetch("/api/rename") resolves
pageReceives ==
  /\ att.pc = "apiResponse"
  /\ IF IsOk(att.http)
       THEN /\ att' = [att EXCEPT !.pc = "done", !.result = "success"]
            /\ newFname' = <<>>
            /\ currentFname' = (IF pageVersion = "inline" THEN att.new ELSE currentFname)
       ELSE /\ att' = Failed(att, att.failedStage, att.httpError, FALSE)
            /\ UNCHANGED <<newFname, currentFname>>
  /\ isLoading' = FALSE
  /\ isConfirmDialogOpen' = FALSE
  /\ UNCHANGED <<transfers, pageVersion, attempts>>

\* a concurrent renamer claims a free name or releases its own; what matters is
\* where its transfer falls among the directory round-trips of the attempt: before
\* the availability check, between the check and the release, or between the
\* release and the claim
otherUser(h, release) ==
  /\ att.pc \in {"idle", "signRelease", "delay"}
  /\ Cardinality({i \in 1..Len(transfers) :
                    OtherFid \in {transfers[i].from, transfers[i].to}}) < MaxOther
  /\ LET body == IF release THEN [name |-> h, from |-> OtherFid, to |-> 0, timestamp |-> 0]
                 ELSE [name |-> h, from |-> 0, to |-> OtherFid, timestamp |-> 0]
     IN  /\ Acceptable(transfers, body)
         /\ transfers' = Append1(transfers, body)
  /\ UNCHANGED <<page, att, attempts>>

Next ==
  \/ \E typed \in TypedNames : SetNewFname(typed)
  \/ openConfirmationDialog
  \/ closeDialog
  \/ Reload
  \/ forget
  \/ \E hasWallet \in BOOLEAN : confirmRename(hasWallet)
  \/ \E cur \in Handles, new \in CallerNames, hasWallet \in BOOLEAN :
       executeFnameRename(cur, new, hasWallet)
  \/ \E p \in ApiPayloads : apiRequest(p)
  \/ \E resp \in NameLookupResponses(transfers, toLowerCase(att.new)), nowMs \in ClockMs :
       availabilityReturns(resp, nowMs)
  \/ \E outcome \in SignOutcomes, nowMs \in ClockMs, laterMs \in ClockMs :
       signReleaseReturns(outcome, nowMs, laterMs)
  \/ \E outcome \in SignOutcomes : signClaimReturns(outcome)
  \/ endpointReceives
  \/ endpointUnreachable
  \/ \E o \in Outcomes : releaseReturns(o)
  \/ delayElapses
  \/ \E o \in Outcomes : claimReturns(o)
  \/ pageReceives
  \/ \E h \in Handles, release \in BOOLEAN : otherUser(h, release)

Spec == Init /\ [][Next]_vars

(* ------------- getCurrentFnameFromFid on arbitrary histories ----------- *)
\* records in a history
MaxHistory == 3
\* timestamps 1..MaxStamp
MaxStamp == 2

\* the page before anything was fetched or typed
PageBlank ==
  /\ pageVersion = "hook" /\ currentFname = Null /\ newFname = <<>>
  /\ isLoading = FALSE /\ isConfirmDialogOpen = FALSE /\ attempts = 0

\* the records GET /transfers?fid= can hold for the identifier: a claim, a release,
\* a transfer of a handle to another identifier
FidRecords ==
  { Transfer(h, ft[1], ft[2], ts) :
      h \in Handles, ft \in {<<0, Fid>>, <<Fid, 0>>, <<Fid, OtherFid>>},
      ts \in 1..MaxStamp }

Histories == UNION { [1..n -> FidRecords] : n \in 0..MaxHistory }

\* the hook's effect has called getCurrentFnameFromFid, the fetch is pending
InitLookup ==
  /\ transfers \in Histories
  /\ PageBlank
  /\ att = [pc |-> "fetch", fid |-> 0, requests |-> 0, status |-> 0, listed |-> FALSE,
            threw |-> FALSE, value |-> Null]

\* getCurrentFnameFromFid(fid) settles and the effect stores the fname (null when
\* it threw)
fetchCurrentFname(fid, resp) ==
  /\ att.pc = "fetch"
  /\ LET r == getCurrentFnameFromFid(fid, resp)
         asked == fid > 0   \* if (fid <= 0) return null, before the fetch
     IN
       /\ att' = [pc |-> "returned", fid |-> fid,
                  requests |-> (IF asked THEN 1 ELSE 0),
                  status |-> (IF asked /\ resp.kind = "resp" THEN resp.status ELSE 0),
                  listed |-> (asked /\ resp.listed),
                  threw |-> r.threw, value |-> r.value]
       /\ currentFname' = r.value
  /\ UNCHANGED <<transfers, pageVersion, newFname, isLoading, isConfirmDialogOpen,
                 attempts>>

NextLookup ==
  \E fid \in {-1, 0, Fid} : \E resp \in FidLookupResponses(transfers, fid) :
    fetchCurrentFname(fid, resp)

LookupSpec == InitLookup /\ [][NextLookup]_vars

(* ------------------ isUsernameTaken on its own, twice ------------------ *)
\* records in the directory
MaxRecords == 2

\* a claim or a release of a handle, by the identifier or by another
NameRecords ==
  { Transfer(h, ft[1], ft[2], 1) :
      h \in Handles,
      ft \in {<<0, Fid>>, <<Fid, 0>>, <<0, OtherFid>>, <<OtherFid, 0>>} }

\* the usernames asked about
AskedNames == Handles \cup {<<"A">>}

InitTaken ==
  /\ transfers \in UNION { [1..n -> NameRecords] : n \in 0..MaxRecords }
  /\ PageBlank
  /\ att = [pc |-> "ask", username |-> <<>>, calls |-> <<>>]

\* one call of isUsernameTaken(username): what the directory answered, what the call
\* returned, and where executeFnameRename goes from there
checkAvailability(username, resp) ==
  /\ att.pc = "ask" /\ Len(att.calls) < 2
  /\ att.calls # <<>> => username = att.username
  /\ resp \in NameLookupResponses(transfers, toLowerCase(username))
  /\ LET isTaken == isUsernameTaken(resp)
         a == [IdleAtt EXCEPT !.flow = "execute", !.pc = "check", !.new = username,
                              !.log = <<"check">>, !.inflight = {"check"}]
     IN  att' = [att EXCEPT
                   !.username = username,
                   !.calls = Append(@, [resp |-> resp, result |-> isTaken,
                                        next |-> AfterCheck(a, isTaken, resp, 1000).pc])]
  /\ UNCHANGED <<transfers, page, attempts>>

NextTaken ==
  \E username \in AskedNames :
    \E resp \in NameLookupResponses(transfers, toLowerCase(username)) :
      checkAvailability(username, resp)

TakenSpec == InitTaken /\ [][NextTaken]_vars

(* --------------------- the validators of a new fname ------------------- *)
\* repetitions of the middle character
MaxFill == 15

\* characters of the three classes of the regex, and two outside them
Chars == {"a", "9", "-", "A", "_"}

Fill(c, k) == [i \in 1..k |-> c]

\* the strings typed: the empty one, one character, and a first and a last character
\* around a run of one character (lengths 2 to MaxFill + 2)
Strings ==
  {<<>>} \cup { <<c>> : c \in Chars }
  \cup { <<c1>> \o Fill(c2, k) \o <<c3>> : c1 \in Chars, c2 \in Chars, c3 \in Chars,
                                         k \in 0..MaxFill }

InitValidate ==
  /\ transfers = <<>>
  /\ pageVersion = "hook" /\ currentFname = Null /\ newFname \in Strings
  /\ isLoading = FALSE /\ isConfirmDialogOpen = FALSE /\ attempts = 0
  /\ att = [pc |-> "typed", page |-> FALSE, dialog |-> FALSE, schema |-> FALSE]

\* the string goes through the page's check, the dialog's and the endpoint's
validate ==
  /\ att.pc = "typed"
  /\ att' = [pc |-> "validated",
             page |-> formatCheck(newFname),
             dialog |-> isValidFname(newFname),
             schema |-> newFnameSchema(newFname)]
  /\ UNCHANGED <<transfers, page, attempts>>

NextValidate == validate

ValidateSpec == InitValidate /\ [][NextValidate]_vars

(* ------------- generateSignature on its own, step by step -------------- *)
\* timestamps 1..MaxSignStamp handed to generateSignature
MaxSignStamp == 3

NoOutcome == [kind |-> "none", isError |-> FALSE, code |-> "none", message |-> <<>>]
NoResult == [threw |-> FALSE, message |-> <<>>, signature |-> NoSig, timestamp |-> 0]

\* generateSignature has not been called yet
InitSign ==
  /\ transfers = <<>>
  /\ PageBlank
  /\ att = [pc |-> "call", fname |-> <<>>, timestamp |-> 0, hasWallet |-> FALSE,
            chain |-> "none",      \* walletClient.switchChain: none, pending, switched, failed
            issuedOn |-> "none",   \* the state of the switch when signing was requested
            outcome |-> NoOutcome, result |-> NoResult]

\* generateSignature is called: without a wallet client it throws at once; with one
\* it builds the claim and calls walletClient.switchChain({id: mainnet.id}) without
\* awaiting the promise
callGenerateSignature(fname, timestamp, hasWallet) ==
  /\ att.pc = "call"
  /\ att' = IF hasWallet
              THEN [att EXCEPT !.pc = "signing", !.fname = fname,
                               !.timestamp = timestamp, !.hasWallet = TRUE,
                               !.chain = "pending"]
              ELSE [att EXCEPT !.pc = "returned", !.fname = fname,
                               !.timestamp = timestamp,
                               !.result = generateSignature(fname, Owner, timestamp,
                                                            FALSE, NoOutcome)]
  /\ UNCHANGED <<transfers, page, attempts>>

\* the wallet settles the switch of chain; nothing in generateSignature waits for
\* the promise or handles its rejection
switchChainSettles(ok) ==
  /\ att.chain = "pending"
  /\ att' = [att EXCEPT !.chain = IF ok THEN "switched" ELSE "failed"]
  /\ UNCHANGED <<transfers, page, attempts>>

\* signUserNameProofClaim(claim) puts the signing request to the wallet
signUserNameProofClaim ==
  /\ att.pc = "signing"
  /\ att' = [att EXCEPT !.pc = "requested", !.issuedOn = att.chain]
  /\ UNCHANGED <<transfers, page, attempts>>

\* the signing request settles and generateSignature returns or throws
signSettles(outcome) ==
  /\ att.pc = "requested"
  /\ att' = [att EXCEPT !.pc = "returned", !.outcome = outcome,
                        !.result = generateSignature(att.fname, Owner, att.timestamp,
                                                     TRUE, outcome)]
  /\ UNCHANGED <<transfers, page, attempts>>

NextSign ==
  \/ \E fname \in Handles : \E timestamp \in 1..MaxSignStamp :
       \E hasWallet \in BOOLEAN : callGenerateSignature(fname, timestamp, hasWallet)
  \/ \E ok \in BOOLEAN : switchChainSettles(ok)
  \/ signUserNameProofClaim
  \/ \E outcome \in SignOutcomes : signSettles(outcome)

SignSpec == InitSign /\ [][NextSign]_vars

(* ----------- the two timestamps of an attempt, on a longer clock --------- *)
\* the clock readings: 1000 ms to 1000 + 500 * MaxStampTicks ms
MaxStampTicks == 6

StampClockMs == {1000 + 500 * k : k \in 0..MaxStampTicks}

\* the availability check has passed, in executeFnameRename or in the page's handler
InitStamp ==
  /\ transfers = <<Transfer(<<"a">>, 0, Fid, 0)>>
  /\ pageVersion = "hook" /\ currentFname = <<"a">> /\ newFname = <<"b">>
  /\ isLoading = FALSE /\ isConfirmDialogOpen = FALSE /\ attempts = 1
  /\ \E flow \in {"execute", "page"} :
       att = [pc |-> "checked", flow |-> flow,
              readMs |-> <<>>,     \* the readings of Date.now(), in order
              waited |-> FALSE,    \* the page took its wait-and-recompute branch
              deleteTimestamp |-> 0, registerTimestamp |-> 0,
              deleteSignatureData |-> [signature |-> NoSig, timestamp |-> 0],
              registerSignatureData |-> [signature |-> NoSig, timestamp |-> 0],
              sent |-> <<>>]

\* const deleteTimestamp = Math.floor(Date.now() / 1000); the release signature is
\* requested
readDeleteTimestamp(nowMs) ==
  /\ att.pc = "checked"
  /\ att' = [att EXCEPT !.pc = "signRelease", !.readMs = <<nowMs>>,
                        !.deleteTimestamp = UnixSeconds(nowMs)]
  /\ UNCHANGED <<transfers, page, attempts>>

\* the release signature is given: the clock is read again, registerTimestamp is
\* computed and the claim signature is requested
releaseSigned(outcome, nowMs, laterMs) ==
  /\ att.pc = "signRelease"
  /\ LET r == generateSignature(currentFname, Owner, att.deleteTimestamp, TRUE, outcome)
     IN  att' = IF r.threw THEN [att EXCEPT !.pc = "failed"]
                ELSE [att EXCEPT
                        !.pc = "signClaim",
                        !.deleteSignatureData =
                           [signature |-> r.signature, timestamp |-> r.timestamp],
                        !.readMs = Append(@, nowMs),
                        !.waited = att.flow = "page"
                                   /\ PageWaits(att.deleteTimestamp, nowMs),
                        !.registerTimestamp =
                           IF att.flow = "execute"
                             THEN RegisterTimestamp(att.deleteTimestamp, nowMs)
                             ELSE PageRegisterTimestamp(att.deleteTimestamp, nowMs,
                                                        laterMs)]
  /\ UNCHANGED <<transfers, page, attempts>>

\* the claim signature is given: the bodies of the two transfers are built
claimSigned(outcome) ==
  /\ att.pc = "signClaim"
  /\ LET r == generateSignature(newFname, Owner, att.registerTimestamp, TRUE, outcome)
     IN  att' = IF r.threw THEN [att EXCEPT !.pc = "failed"]
                ELSE [att EXCEPT
                        !.pc = "signed",
                        !.registerSignatureData =
                           [signature |-> r.signature, timestamp |-> r.timestamp],
                        !.sent =
                           <<ReleaseBody(currentFname, Owner,
                                         att.deleteSignatureData.signature,
                                         att.deleteSignatureData.timestamp, Fid),
                             ClaimBody(newFname, Owner, r.signature,
                                       IF att.flow = "execute" THEN r.timestamp
                                       ELSE att.registerTimestamp, Fid)>>]
  /\ UNCHANGED <<transfers, page, attempts>>

NextStamp ==
  \/ \E nowMs \in StampClockMs : readDeleteTimestamp(nowMs)
  \/ \E outcome \in SignOutcomes, nowMs \in StampClockMs, laterMs \in StampClockMs :
       releaseSigned(outcome, nowMs, laterMs)
  \/ \E outcome \in SignOutcomes : claimSigned(outcome)

StampSpec == InitStamp /\ [][NextStamp]_vars

(* --------- useFarcasterIdentity: the effect that fetches the fname ------- *)
\* changes of the identifier the hook holds
MaxFidChanges == 3

\* the hook is mounted with no identifier: the effect has run and reset the fname
InitIdentity ==
  /\ transfers = <<Transfer(<<"a">>, 0, Fid, 0), Transfer(<<"b">>, 0, OtherFid, 0)>>
  /\ PageBlank
  /\ att = [pc |-> "mounted",
            fetchedFid |-> 0,                 \* 0: null
            effectFid |-> 0,                  \* fetchedFid when the effect last ran
            isLoadingCurrentFname |-> FALSE,
            lookups |-> {},                   \* pending getCurrentFnameFromFid calls
            origin |-> 0,                     \* the identifier currentFname was fetched for
            changes |-> 0]

\* setFetchedFid: the hook renders with another identifier; the fname effect, whose
\* dependency changed, runs after that render
setFetchedFid(fid) ==
  /\ att.pc = "mounted" /\ att.changes < MaxFidChanges
  /\ fid # att.fetchedFid
  /\ att' = [att EXCEPT !.fetchedFid = fid, !.changes = @ + 1]
  /\ UNCHANGED <<transfers, page, attempts>>

\* the cleanup of an effect: isMounted = false in the closure of its lookup
Cleanup(lookups) == { [l EXCEPT !.isMounted = FALSE] : l \in lookups }

\* the fname effect runs for the identifier held: cleanup of the previous run, the
\* fname and the loading flag are reset, and a lookup is started for a valid identifier
fnameEffect ==
  /\ att.pc = "mounted" /\ att.effectFid # att.fetchedFid
  /\ currentFname' = Null
  /\ att' = [att EXCEPT
               !.effectFid = att.fetchedFid,
               !.origin = 0,
               !.isLoadingCurrentFname = (att.fetchedFid > 0),
               !.lookups = Cleanup(@) \cup
                  (IF att.fetchedFid > 0
                     THEN {[fid |-> att.fetchedFid, isMounted |-> TRUE]} ELSE {})]
  /\ UNCHANGED <<transfers, pageVersion, newFname, isLoading, isConfirmDialogOpen,
                 attempts>>

\* a pending lookup settles: .then or .catch, then .finally, each under isMounted
lookupSettles(l, resp) ==
  /\ l \in att.lookups
  /\ resp \in FidLookupResponses(transfers, l.fid)
  /\ LET r == getCurrentFnameFromFid(l.fid, resp) IN
       IF l.isMounted
         THEN /\ currentFname' = r.value
              /\ att' = [att EXCEPT !.lookups = @ \ {l},
                                    !.origin = (IF r.value = Null THEN 0 ELSE l.fid),
                                    !.isLoadingCurrentFname = FALSE]
         ELSE /\ currentFname' = currentFname
              /\ att' = [att EXCEPT !.lookups = @ \ {l}]
  /\ UNCHANGED <<transfers, pageVersion, newFname, isLoading, isConfirmDialogOpen,
                 attempts>>

\* the component unmounts: the cleanup of the last effect runs
unmount ==
  /\ att.pc = "mounted"
  /\ att' = [att EXCEPT !.pc = "unmounted", !.lookups = Cleanup(@)]
  /\ UNCHANGED <<transfers, page, attempts>>

NextIdentity ==
  \/ \E fid \in {0, Fid, OtherFid} : setFetchedFid(fid)
  \/ fnameEffect
  \/ \E l \in att.lookups : \E resp \in FidLookupResponses(transfers, l.fid) :
       lookupSettles(l, resp)
  \/ unmount

IdentitySpec == InitIdentity /\ [][NextIdentity]_vars

(* ------------- the Confirm button on any state of the page ------------- *)
\* what the new-fname input can hold
GuardNames == TypedNames \cup {<<"b", "-">>}

\* what the page can read from the wallet and the identity hook
Connections ==
  [isConnected : BOOLEAN, address : BOOLEAN, fid : {0, Fid},
   isLoadingCurrentFname : BOOLEAN, phrase : BOOLEAN]

\* the confirmation dialog is open
InitGuard ==
  /\ transfers = <<Transfer(<<"a">>, 0, Fid, 0)>>
  /\ pageVersion \in {"hook", "inline"}
  /\ currentFname \in {Null, <<"a">>}
  /\ newFname \in GuardNames
  /\ isLoading = FALSE /\ isConfirmDialogOpen = TRUE /\ attempts = 0
  /\ \E conn \in Connections, hasWallet \in BOOLEAN :
       att = [pc |-> "dialog", conn |-> conn, hasWallet |-> hasWallet,
              outcome |-> "none", log |-> <<>>]

\* the Confirm button is pressed: the attempt starts with its availability check
\* or does not start
confirmClick ==
  /\ att.pc = "dialog"
  /\ LET outcome == ConfirmOutcomeFor(att.conn, att.hasWallet) IN
       /\ att' = [att EXCEPT !.pc = "clicked", !.outcome = outcome,
                             !.log = IF outcome = "start" THEN <<"check">> ELSE <<>>]
       /\ isLoading' = (outcome = "start")
       /\ isConfirmDialogOpen' =
            (IF outcome \in {"close", "abort"} THEN FALSE
             ELSE IF outcome = "start" THEN pageVersion = "hook"
             ELSE isConfirmDialogOpen)
       /\ attempts' = (IF outcome = "start" THEN 1 ELSE 0)
  /\ UNCHANGED <<transfers, pageVersion, currentFname, newFname>>

NextGuard == confirmClick

GuardSpec == InitGuard /\ [][NextGuard]_vars

(* --------------- the buttons of the page during an attempt ------------- *)
\* attempts started on one page
MaxClicks == 3

\* the stages of a page attempt, and the one that follows each
NextStage(stage) ==
  CASE stage = "check" -> "signRelease"
    [] stage = "signRelease" -> "signClaim"
    [] stage = "signClaim" -> "submit"
    [] OTHER -> "end"

\* the page has loaded the current fname; no attempt is running
InitClick ==
  /\ transfers = <<Transfer(<<"a">>, 0, Fid, 0)>>
  /\ pageVersion \in {"hook", "inline"}
  /\ currentFname = <<"a">> /\ newFname = <<>>
  /\ isLoading = FALSE /\ isConfirmDialogOpen = FALSE /\ attempts = 0
  /\ att = [pc |-> "page", running |-> <<>>]   \* the attempts in flight, each at a stage

\* the user types in the new-fname input, unless it is disabled
typeNewFname(typed) ==
  /\ ~isLoading /\ currentFname # Null
  /\ newFname' = toLowerCase(typed)
  /\ UNCHANGED <<transfers, pageVersion, currentFname, isLoading, isConfirmDialogOpen,
                 att, attempts>>

\* the Rename button is clicked, unless it is disabled
clickRename ==
  /\ ~RenameDisabled
  /\ isConfirmDialogOpen' = (IF CanOpenDialog THEN TRUE ELSE isConfirmDialogOpen)
  /\ UNCHANGED <<transfers, pageVersion, currentFname, newFname, isLoading, att, attempts>>

\* the Confirm button is clicked, unless it is disabled: an attempt may start,
\* whatever else is running
clickConfirm(hasWallet) ==
  /\ isConfirmDialogOpen /\ ~ConfirmDisabled /\ attempts < MaxClicks
  /\ LET outcome == ConfirmOutcome(hasWallet) IN
       /\ isConfirmDialogOpen' =
            (IF outcome \in {"close", "abort"} THEN FALSE
             ELSE IF outcome = "start" THEN pageVersion = "hook"
             ELSE isConfirmDialogOpen)
       /\ isLoading' = (IF outcome = "start" THEN TRUE
                        ELSE IF outcome = "abort" THEN FALSE ELSE isLoading)
       /\ att' = (IF outcome = "start"
                    THEN [att EXCEPT !.running =
                            Append(@, [stage |-> "check", new |-> newFname])]
                    ELSE att)
       /\ attempts' = (IF outcome = "start" THEN attempts + 1 ELSE attempts)
  /\ UNCHANGED <<transfers, pageVersion, currentFname, newFname>>

\* the dialog is dismissed (Escape, a click outside)
dismissDialog ==
  /\ isConfirmDialogOpen
  /\ isConfirmDialogOpen' = FALSE
  /\ UNCHANGED <<transfers, pageVersion, currentFname, newFname, isLoading, att, attempts>>

Without(seq, i) == SubSeq(seq, 1, i - 1) \o SubSeq(seq, i + 1, Len(seq))

\* a round-trip of attempt i returns: the attempt goes on to its next stage, or it
\* ends (ok: in success after the last stage, else in the catch) and its finally
\* block runs
attemptSteps(i, ok) ==
  /\ i \in 1..Len(att.running)
  /\ LET a == att.running[i]
         next == IF ok THEN NextStage(a.stage) ELSE "end"
     IN  IF next # "end"
           THEN /\ att' = [att EXCEPT !.running[i].stage = next]
                /\ UNCHANGED <<currentFname, newFname, isLoading, isConfirmDialogOpen>>
           ELSE /\ att' = [att EXCEPT !.running = Without(@, i)]
                /\ newFname' = (IF ok THEN <<>> ELSE newFname)
                /\ currentFname' = (IF ok /\ pageVersion = "inline" THEN a.new
                                    ELSE currentFname)
                /\ isLoading' = FALSE
                /\ isConfirmDialogOpen' = FALSE
  /\ UNCHANGED <<transfers, pageVersion, attempts>>

NextClick ==
  \/ \E typed \in TypedNames : typeNewFname(typed)
  \/ clickRename
  \/ \E hasWallet \in BOOLEAN : clickConfirm(hasWallet)
  \/ dismissDialog
  \/ \E i \in 1..Len(att.running), ok \in BOOLEAN : attemptSteps(i, ok)

ClickSpec == InitClick /\ [][NextClick]_vars

(* ------------- the page flow alone, its round-trips completing --------- *)
\* a signing or network round-trip of the attempt completes
RoundTrip ==
  \/ \E resp \in NameLookupResponses(transfers, toLowerCase(att.new)), nowMs \in ClockMs :
       availabilityReturns(resp, nowMs)
  \/ \E outcome \in SignOutcomes, nowMs \in ClockMs, laterMs \in ClockMs :
       signReleaseReturns(outcome, nowMs, laterMs)
  \/ \E outcome \in SignOutcomes : signClaimReturns(outcome)
  \/ endpointReceives
  \/ endpointUnreachable
  \/ \E o \in Outcomes : releaseReturns(o)
  \/ delayElapses
  \/ \E o \in Outcomes : claimReturns(o)
  \/ pageReceives

NextPage ==
  \/ \E typed \in TypedNames : SetNewFname(typed)
  \/ openConfirmationDialog
  \/ closeDialog
  \/ forget
  \/ \E hasWallet \in BOOLEAN : confirmRename(hasWallet)
  \/ RoundTrip

\* every signing and network round-trip eventually completes
PageSpec == Init /\ [][NextPage]_vars /\ WF_vars(RoundTrip)

(* ============================ the claims =============================== *)
\* a contiguous piece of a message
Contains(msg, piece) ==
  \E i \in 0..(Len(msg) - Len(piece)) : SubSeq(msg, i + 1, i + Len(piece)) = piece

\* the message names the handle and says it was already released
DisclosesRelease(msg, cur) ==
  \/ Contains(msg, <<"Released ">> \o cur \o <<", but failed to claim ">>)
  \/ Contains(msg, <<"Deleted ">> \o cur \o <<", but failed to register ">>)

\* a submission was answered with a 2xx status
TwoXX(r) == r.kind = "resp" /\ r.status \in 200..299

\* a submission was answered with another status
NonTwoXX(r) == r.kind = "resp" /\ r.status \notin 200..299

\* what the caller is told: the thrown error, or the error of the 500 body
Reported == IF att.flow = "execute" THEN att.message ELSE att.httpError

\* every message a release-stage failure produces
ReleaseStageMessages ==
  {FetchFailed}
  \cup {ExecReleaseFailedMessage(st, t) : st \in {400, 500}, t \in ResponseTexts}
  \cup {ApiReleaseFailedMessage(st, t) : st \in {400, 500}, t \in ResponseTexts}

\* C1: when the release POST returned 2xx and the claim POST returns a non-2xx
\* status, the failure reported (the error thrown by executeFnameRename, the 500
\* body of /api/rename) names the old handle as already released and is none of the
\* messages of a release-stage failure.
C1_PartialFailureDisclosed ==
  (TwoXX(att.rel) /\ NonTwoXX(att.claim)) =>
     /\ IF att.flow = "execute" THEN att.pc = "failed" ELSE att.http = 500
     /\ DisclosesRelease(Reported, att.cur)
     /\ Reported \notin ReleaseStageMessages

C1_Witness == TwoXX(att.rel) /\ NonTwoXX(att.claim) /\ att.pc = "failed"

\* C2: every failure of the claim submission after a successful release, the claim
\* request throwing included, is reported with a message that says the old handle
\* was released.
C2_EveryClaimFailureDisclosed ==
  (TwoXX(att.rel) /\ att.claim.kind # "none" /\ ~TwoXX(att.claim)) =>
     DisclosesRelease(Reported, att.cur)

\* the stages an attempt has started
StartedStages == {att.log[i] : i \in 1..Len(att.log)}

\* C3: in executeFnameRename and the page flow, the timestamp computed, signed and
\* submitted for the claim is strictly greater than the one of the release,
\* whatever the clock read the second time.
C3_ClaimTimestampAfterRelease ==
  att.flow \in {"execute", "page"} =>
    /\ "signClaim" \in StartedStages => att.registerTimestamp > att.deleteTimestamp
    /\ att.registerSignatureData.signature # NoSig =>
         /\ att.registerSignatureData.signature.timestamp
              > att.deleteSignatureData.signature.timestamp
         /\ att.registerSignatureData.timestamp > att.deleteSignatureData.timestamp
    /\ att.apiCalls > 0 =>
         att.payload.registerTimestamp > att.payload.deleteTimestamp
    /\ Len(att.sent) = 2 => att.sent[2].timestamp > att.sent[1].timestamp

\* both transfers were submitted though the clock moved backward between the readings
C3_Witness ==
  /\ att.flow = "page" /\ Len(att.sent) = 2
  /\ UnixSeconds(att.preRegisterTime) < att.deleteTimestamp

\* s is an initial segment of t
IsPrefix(s, t) == Len(s) <= Len(t) /\ SubSeq(t, 1, Len(s)) = s

\* the order of the stages: of a whole attempt, and of what POST /api/rename runs of it
StageOrder(flow) ==
  IF flow = "api" THEN <<"submitRelease", "submitClaim">>
  ELSE <<"check", "signRelease", "signClaim", "submitRelease", "submitClaim">>

\* the attempt has failed: it threw, or the endpoint answered with an error
HasFailed(a) == a.pc = "failed" \/ (a.http # 0 /\ a.http \notin 200..299)

\* the stages started so far are the first stages of the order, each started once;
\* all but possibly the last have completed; at most one is in flight, and none once
\* the attempt has failed
C4_Order ==
  /\ IsPrefix(att.log, StageOrder(att.flow))
  /\ IsPrefix(att.completed, att.log)
  /\ Len(att.log) <= Len(att.completed) + 1
  /\ Cardinality(att.inflight) <= 1
  /\ att.inflight \subseteq {att.log[i] : i \in {Len(att.log)} \cap DOMAIN att.log}
  /\ HasFailed(att) => att.inflight = {}
  /\ Len(att.sent) <= Len(att.log)

\* a failed attempt starts no stage and sends nothing: it is only forgotten
C4_Step ==
  HasFailed(att) =>
    \/ att' = IdleAtt
    \/ /\ att'.log = att.log /\ att'.completed = att.completed
       /\ att'.sent = att.sent /\ att'.apiCalls = att.apiCalls
       /\ att'.inflight = {} /\ HasFailed(att')

ReleaseFailed == att.rel.kind # "none" /\ ~TwoXX(att.rel)

\* C5: when the release submission fails (a non-2xx response or a throw), no claim
\* is sent in that attempt and no reported error says the old handle was released.
C5_ReleaseFailureStops ==
  ReleaseFailed =>
    /\ Len(att.sent) = 1 /\ att.sent[1].to = 0
    /\ "submitClaim" \notin StartedStages
    /\ att.claim = NoResponse
    /\ HasFailed(att)
    /\ \A m \in {Reported, att.message, att.toast} :
         /\ ~DisclosesRelease(m, att.cur)
         /\ ~Includes(m, "Released ") /\ ~Includes(m, "Deleted ")

\* the directory rejected the release and the caller was told
C5_Witness ==
  /\ NonTwoXX(att.rel) /\ att.pc = "failed"
  /\ att.message \in ReleaseStageMessages \ {FetchFailed}

\* C6: when release signing or claim signing fails, the attempt ends with nothing
\* sent: no transfer to the directory and no request to /api/rename, a release
\* signature already obtained included.
C6_SigningFailureSendsNothing ==
  att.failedStage \in {"signRelease", "signClaim"} =>
    /\ att.pc = "failed"
    /\ att.sent = <<>> /\ att.apiCalls = 0
    /\ att.rel = NoResponse /\ att.claim = NoResponse
    /\ StartedStages \cap {"submitRelease", "submitClaim"} = {}

\* claim signing failed with the release signature in hand
C6_Witness ==
  /\ att.failedStage = "signClaim"
  /\ att.deleteSignatureData.signature # NoSig

\* C7: when the availability check reports the new handle taken, the attempt fails
\* with the name-taken error, no signature has been requested and no transfer or
\* request has been sent.
C7_TakenFailsFirst ==
  att.isTaken = "true" =>
    /\ att.pc = "failed" /\ att.failedStage = "check"
    /\ att.message = TakenMessage(att.new)
    /\ att.log = <<"check">>
    /\ att.deleteSignatureData.signature = NoSig
    /\ att.registerSignatureData.signature = NoSig
    /\ att.sent = <<>> /\ att.apiCalls = 0
    /\ att.rel = NoResponse /\ att.claim = NoResponse

C7_Witness == att.isTaken = "true" /\ att.flow = "page" /\ att.toast # <<>>

\* the POSTs of the attempt that release (to = 0) and that claim (from = 0)
ReleasesSent == {i \in 1..Len(att.sent) : att.sent[i].to = 0}
ClaimsSent == {i \in 1..Len(att.sent) : att.sent[i].from = 0}

\* C8: within one attempt at most one release POST and at most one claim POST are
\* sent, whatever their outcomes, and no stage is started a second time.
C8_AtMostOnce ==
  /\ Cardinality(ReleasesSent) <= 1
  /\ Cardinality(ClaimsSent) <= 1
  /\ Len(att.sent) <= 2
  /\ att.apiCalls <= 1
  /\ \A i, j \in 1..Len(att.log) : att.log[i] = att.log[j] => i = j

\* the claim failed after both POSTs were made
C8_Witness ==
  /\ Cardinality(ReleasesSent) = 1 /\ Cardinality(ClaimsSent) = 1
  /\ att.claim.kind # "none" /\ ~TwoXX(att.claim) /\ att.pc = "failed"

\* the endpoint's validation rejects the payload
FailsValidation(p) == p.unparsable \/ renameRequestSchema(p) # {}

\* C9: executeFnameRename returns true exactly when both submissions returned 2xx;
\* POST /api/rename answers 200 exactly when both did, 400 exactly when the payload
\* fails validation, and 500 otherwise.
C9_SuccessIffBoth2xx ==
  /\ (att.flow = "execute" /\ att.pc \in {"done", "failed"}) =>
       /\ (att.result = "success") = (TwoXX(att.rel) /\ TwoXX(att.claim))
       /\ (att.pc = "done") = (att.result = "success")
  /\ (att.flow \in {"api", "page"} /\ att.http # 0) =>
       /\ att.http \in {200, 400, 500}
       /\ (att.http = 200) = (TwoXX(att.rel) /\ TwoXX(att.claim))
       /\ (att.http = 400) = FailsValidation(att.payload)
  /\ (att.flow = "api" /\ att.pc \in {"done", "failed"}) => att.http # 0

\* the endpoint answered 200
C9_Witness ==
  att.flow = "api" /\ att.http = 200 /\ TwoXX(att.rel) /\ TwoXX(att.claim)

\* C10: an attempt started while the identifier owns no handle (the partial-failure
\* state), with valid input, a free name and no transport fault, ends with the
\* identifier owning a handle.
C10_RetryRegainsHandle ==
  ( /\ att.startedPartial /\ att.pc \in {"done", "failed"}
    /\ ~att.fault /\ att.isTaken # "true" /\ att.failedStage # "validate" )
  => NamesOf(transfers, Fid) # {}

\* the identifier owns no handle and no attempt is between its release and its claim
Stranded == NamesOf(transfers, Fid) = {} /\ att.pc \notin {"delay", "submitClaim"}

\* why no retry helps: every attempt POSTs the release first and stops when it is
\* refused, so once the identifier is stranded no step of the system gives it a handle
StrandedForever == [][Stranded => Stranded']_vars

\* the signature and timestamp the attempt holds for the release and for the claim:
\* what generateSignature returned, or what the request to /api/rename carries
ReleaseAuth ==
  IF att.flow = "execute"
    THEN [signature |-> att.deleteSignatureData.signature,
          timestamp |-> att.deleteSignatureData.timestamp]
    ELSE [signature |-> att.payload.deleteSignature,
          timestamp |-> att.payload.deleteTimestamp]

ClaimAuth ==
  IF att.flow = "execute"
    THEN [signature |-> att.registerSignatureData.signature,
          timestamp |-> att.registerSignatureData.timestamp]
    ELSE [signature |-> att.payload.registerSignature,
          timestamp |-> att.payload.registerTimestamp]

\* C11: the first POST is {name: current handle, from: fid, to: 0} with the release
\* signature and timestamp, the second is {name: new handle, from: 0, to: fid} with
\* the claim signature and timestamp; when the attempt signed them itself, each
\* signature is the one made over the body's own (name, owner, timestamp), and no
\* signature is sent twice.
C11_BodiesCarryOwnSignatures ==
  /\ Len(att.sent) >= 1 =>
       LET b == att.sent[1] IN
         /\ b.name = att.cur /\ b.from = att.fid /\ b.to = 0
         /\ b.fid = att.fid /\ b.owner = att.owner
         /\ b.signature = ReleaseAuth.signature /\ b.timestamp = ReleaseAuth.timestamp
         /\ att.flow \in {"execute", "page"} =>
              /\ b.signature = Sig(b.name, b.owner, b.timestamp)
              /\ b.timestamp = att.deleteTimestamp
  /\ Len(att.sent) >= 2 =>
       LET b == att.sent[2] IN
         /\ b.name = att.new /\ b.from = 0 /\ b.to = att.fid
         /\ b.fid = att.fid /\ b.owner = att.owner
         /\ b.signature = ClaimAuth.signature /\ b.timestamp = ClaimAuth.timestamp
         /\ att.flow \in {"execute", "page"} =>
              /\ b.signature = Sig(b.name, b.owner, b.timestamp)
              /\ b.timestamp = att.registerTimestamp
              /\ b.signature # att.sent[1].signature
  /\ Len(att.sent) <= 2

\* both transfers were submitted by the page flow and accepted
C11_Witness ==
  /\ att.flow = "page" /\ Len(att.sent) = 2 /\ TwoXX(att.rel) /\ TwoXX(att.claim)
  /\ att.sent[1].signature # NoSig /\ att.sent[2].signature # NoSig

\* what getCurrentFnameFromFid returns for the directory as it is now
CurrentLookup ==
  getCurrentFnameFromFid(Fid, [kind |-> "resp", status |-> 200, listed |-> TRUE,
                               transfers |-> TransfersOfFid(transfers, Fid)]).value

\* the attempt ended in success with both transfers appended to the directory
RenamedInDirectory ==
  /\ att.flow \in {"execute", "page"}
  /\ att.result = "success" /\ att.pc = "done"
  /\ TwoXX(att.rel) /\ TwoXX(att.claim)
  /\ OwnerOf(transfers, att.new) = Fid

\* C12: after a rename attempt of executeFnameRename or of the page that ended in
\* success, with both transfers accepted and appended with the timestamps the attempt
\* computed, getCurrentFnameFromFid returns the new handle.
C12_LookupReturnsNewHandle ==
  RenamedInDirectory => CurrentLookup = att.new

\* getCurrentFnameFromFid returned for the identifier, from a 200 response holding
\* the history
Looked ==
  /\ att.pc = "returned" /\ att.fid = Fid /\ att.status = 200 /\ att.listed
  /\ transfers # <<>>

\* the positions of the records with the highest timestamp
Top == {i \in 1..Len(transfers) :
          \A j \in 1..Len(transfers) : transfers[j].timestamp <= transfers[i].timestamp}

\* the record is a release by the identifier
IsRelease(t) == t.from = Fid /\ t.to = 0

\* the positions of the records to the identifier, and the latest of them
ToFid == {i \in 1..Len(transfers) : transfers[i].to = Fid}
TopToFid == {i \in ToFid : \A j \in ToFid : transfers[j].timestamp <= transfers[i].timestamp}

\* C13: for a non-empty history whose highest-timestamp record is a release by the
\* identifier, getCurrentFnameFromFid returns none, whatever the earlier records.
C13_LatestReleaseGivesNone ==
  (Looked /\ \E i \in Top : IsRelease(transfers[i])) => att.value = Null

\* what does hold: a release whose timestamp is strictly the highest gives none
StrictlyLatestReleaseGivesNone ==
  (Looked /\ Cardinality(Top) = 1 /\ \A i \in Top : IsRelease(transfers[i]))
    => att.value = Null

\* C14: for a non-empty history whose highest-timestamp record is not a release by
\* the identifier, getCurrentFnameFromFid returns the handle of a highest-timestamp
\* record among those to the identifier, and none when no record is to the identifier.
C14_LatestRegistrationReturned ==
  (Looked /\ \A i \in Top : ~IsRelease(transfers[i])) =>
     /\ ~att.threw
     /\ IF ToFid = {} THEN att.value = Null
        ELSE \E i \in TopToFid : att.value = transfers[i].username

\* three records, the latest claim after an older claim of the other handle
C14_Witness ==
  /\ Looked /\ Len(transfers) = MaxHistory
  /\ \A i \in Top : ~IsRelease(transfers[i])
  /\ \E i \in TopToFid, j \in ToFid :
       /\ transfers[j].timestamp < transfers[i].timestamp
       /\ transfers[j].username # transfers[i].username
       /\ att.value = transfers[i].username

\* C15: getCurrentFnameFromFid returns a handle only when a highest-timestamp record
\* of the history is to the identifier and names that handle, and returns that handle
\* when every highest-timestamp record is; when the most recent record moves a handle
\* away from the identifier the result is none.
C15_LatestRecordDecides ==
  Looked =>
    /\ att.value # Null =>
         \E i \in Top : transfers[i].to = Fid /\ transfers[i].username = att.value
    /\ \A h \in Handles :
         (\A i \in Top : transfers[i].to = Fid /\ transfers[i].username = h)
           => att.value = h

\* the calls of isUsernameTaken made so far
Calls == {att.calls[i] : i \in 1..Len(att.calls)}

\* the directory returned a transfer record whose to field is non-zero
RecordHeld(resp) ==
  resp.kind = "resp" /\ resp.status = 200 /\ resp.hasTransfer /\ resp.to # 0

\* the directory answered that the name has no holder: a 404, an empty transfers
\* response, or a record with to = 0
AnsweredFree(resp) ==
  /\ resp.kind = "resp"
  /\ \/ resp.status = 404
     \/ resp.status = 200 /\ ~resp.hasTransfer
     \/ resp.status = 200 /\ resp.hasTransfer /\ resp.to = 0

\* C16: isUsernameTaken returns true exactly when the directory returns a record of
\* the lowercased name whose to field is non-zero; a 404, an empty response and a
\* record with to = 0 give false, and executeFnameRename then goes on to signing.
C16_TakenIffHeld ==
  att.pc = "ask" =>
    \A c \in Calls :
      /\ c.resp \in NameLookupResponses(transfers, toLowerCase(att.username))
      /\ (c.result = "true") = RecordHeld(c.resp)
      /\ RecordHeld(c.resp) =>
           /\ OwnerOf(transfers, toLowerCase(att.username)) # 0
           /\ c.next = "failed"
      /\ AnsweredFree(c.resp) => c.result = "false" /\ c.next = "signRelease"

\* a released handle, asked about in upper case, is reported free
C16_Witness ==
  /\ att.pc = "ask" /\ att.username = <<"A">>
  /\ \E c \in Calls :
       c.resp.status = 200 /\ c.resp.hasTransfer /\ c.resp.to = 0 /\ c.result = "false"

\* two calls that both returned gave the same answer
C17_SameAnswer ==
  (att.pc = "ask" /\ Len(att.calls) = 2
     /\ att.calls[1].result # "throw" /\ att.calls[2].result # "throw")
    => att.calls[1].result = att.calls[2].result

\* C17: two consecutive calls of isUsernameTaken for the same handle, no transfer
\* submitted in between, return the same result, and a call changes neither the
\* directory nor the page's state.
C17_LookupIdempotent ==
  [](C17_SameAnswer) /\ [][UNCHANGED <<transfers, page, attempts>>]_vars

\* a name without records: a 404 first, then an empty response, both not taken
C17_Witness ==
  /\ att.pc = "ask" /\ Len(att.calls) = 2
  /\ att.calls[1].resp.status = 404 /\ att.calls[2].resp.status = 200
  /\ att.calls[1].result = "false" /\ att.calls[2].result = "false"

\* 1 <= length <= 16, every character in [a-z0-9-], neither end a hyphen
WellFormed(h) ==
  /\ Len(h) >= 1 /\ Len(h) <= 16
  /\ \A i \in 1..Len(h) : h[i] \in LowerAlnum \cup {"-"}
  /\ h[1] # "-" /\ h[Len(h)] # "-"

\* C18: the format check of validateNewFname, isValidFname and the endpoint's
\* newFname schema each accept a string exactly when it has 1 to 16 characters, all
\* in [a-z0-9-], and neither its first nor its last character is a hyphen.
C18_ValidatorsAgree ==
  att.pc = "validated" =>
    /\ att.page = WellFormed(newFname)
    /\ att.dialog = WellFormed(newFname)
    /\ att.schema = WellFormed(newFname)

\* a string of 16 characters with a hyphen inside is accepted
C18_Witness ==
  /\ att.pc = "validated" /\ Len(newFname) = 16 /\ newFname[2] = "-"
  /\ att.page /\ att.dialog /\ att.schema

\* POST /api/rename has dealt with the request it received
Handled == att.flow \in {"api", "page"} /\ att.apiCalls > 0 /\ att.pc # "apiRequest"
             /\ att.failedStage # "apiRequest"

\* C19: a request to /api/rename whose body is unparsable or fails the schema is
\* answered 400 and nothing is sent to the directory, neither release nor claim.
C19_InvalidRequestSendsNothing ==
  (Handled /\ FailsValidation(att.payload)) =>
     /\ att.http = 400
     /\ att.sent = <<>> /\ att.log = <<>>
     /\ att.rel = NoResponse /\ att.claim = NoResponse

\* a request failing the schema was answered
C19_Witness ==
  /\ Handled /\ ~att.payload.unparsable /\ renameRequestSchema(att.payload) # {}
  /\ att.http = 400 /\ att.pc = "failed"

\* C20: a request to /api/rename in which deleteSignature or registerSignature is
\* absent is answered 400 and nothing is sent to the directory.
C20_AbsentSignatureRejected ==
  ( /\ Handled
    /\ att.payload.deleteSignature = NoSig \/ att.payload.registerSignature = NoSig )
  => att.http = 400 /\ att.sent = <<>>

\* generateSignature has ended in an error after the signing request settled
SignFailure == att.pc = "returned" /\ att.hasWallet /\ att.outcome.kind # "ok"

\* the signer declined: an error result whose message holds "rejected" or "4001", or
\* a thrown error whose code is 4001 or 'ACTION_REJECTED'
Declined(o) ==
  \/ o.kind = "err" /\ (Includes(o.message, "rejected") \/ Includes(o.message, "4001"))
  \/ o.kind = "throw" /\ o.code \in {"4001", "ACTION_REJECTED"}

\* C21: when the signer declines, generateSignature fails with "Signature request
\* rejected by user." and not with "Failed to sign the message."; every other signing
\* failure fails with "Failed to sign the message." carrying the original detail.
C21_DeclineReported ==
  SignFailure =>
    IF Declined(att.outcome)
      THEN /\ IsPrefix(RejectedByUser, att.result.message)
           /\ ~Contains(att.result.message, FailedToSign)
      ELSE /\ IsPrefix(FailedToSign, att.result.message)
           /\ Contains(att.result.message, att.outcome.message)

\* a decline thrown with a wallet error code is reported as a rejection, without detail
ThrownDeclineReported ==
  (SignFailure /\ att.outcome.kind = "throw" /\ Declined(att.outcome))
    => att.result.message = RejectedByUser

\* C22: the switch of the wallet to the signing chain has completed before the
\* signing request is issued: signing is never requested while the switch is pending
\* or after it failed.
C22_SwitchedBeforeSigning ==
  (att.pc \in {"requested", "returned"} /\ att.hasWallet) => att.issuedOn = "switched"

\* C29: when generateSignature succeeds it returns the signature over the claim and
\* exactly the timestamp it was given, never a clock reading of its own.
C29_TimestampReturnedUnchanged ==
  (att.pc = "returned" /\ ~att.result.threw) =>
     /\ att.result.timestamp = att.timestamp
     /\ att.result.signature = Sig(att.fname, Owner, att.timestamp)

\* a signature over timestamp 2 came back with timestamp 2
C29_Witness ==
  /\ att.pc = "returned" /\ att.outcome.kind = "ok" /\ ~att.result.threw
  /\ att.timestamp = 2 /\ att.result.timestamp = 2

\* the records of a handle that claim it (from 0) in the directory
ClaimRecords(h) == {i \in RecordsOf(transfers, h) : transfers[i].from = 0}

\* the directory holds no two claims of a handle without a release between them
OneClaimAccepted ==
  \A h \in Handles : \A i, j \in ClaimRecords(h) :
    i < j => \E k \in RecordsOf(transfers, h) : i < k /\ k < j /\ transfers[k].to = 0

\* the attempt saw the new handle free, the concurrent renamer claimed it, and the
\* directory refused the attempt's own claim
LostRace ==
  /\ att.flow \in {"execute", "page"} /\ att.isTaken = "false"
  /\ OwnerOf(transfers, att.new) = OtherFid
  /\ NonTwoXX(att.claim)

\* C23: when two users rename to the same new handle concurrently, both can be told
\* the handle is free, the directory accepts at most one of the claims, and the
\* attempt whose claim is refused ends as a partial failure: its old handle is
\* released, it holds no handle, and the failure is one of the claim stage.
C23_LoserEndsPartial ==
  /\ OneClaimAccepted
  /\ LostRace =>
       /\ TwoXX(att.rel)
       /\ OwnerOf(transfers, att.cur) # att.fid
       /\ NamesOf(transfers, att.fid) = {}
       /\ att.failedStage = "submitClaim"
       /\ att.result # "success"
       /\ att.pc \in {"failed", "apiResponse"}

\* the attempt found the new handle free when the other renamer had not claimed it
\* yet, released its own, and had its claim refused with 400
C23_Witness ==
  /\ LostRace /\ att.pc = "failed" /\ att.claim.status = 400
  /\ att.cur = <<"a">> /\ att.new = <<"b">>
  /\ transfers = <<Transfer(<<"a">>, 0, Fid, 0),
                   Transfer(<<"b">>, 0, OtherFid, 0),
                   Transfer(<<"a">>, Fid, 0, att.deleteTimestamp)>>

\* C24: the new handle is lowercased before any use: the handle signed and submitted
\* in the claim is the lowercased string the availability check looked up, whatever
\* the input, one with uppercase characters included.
C24_ClaimUsesLookedUpName ==
  att.flow \in {"execute", "page"} =>
    \A i \in ClaimsSent :
      /\ att.sent[i].name = att.lookedUp
      /\ att.sent[i].signature.name = att.lookedUp

\* in the page flow the input was lowercased when typed, and the claim carries the
\* name that was looked up
PageClaimUsesLookedUpName ==
  att.flow = "page" => \A i \in ClaimsSent : att.sent[i].name = att.lookedUp

\* the rename of the page has succeeded
PageRenamed == att.flow = "page" /\ att.pc = "done" /\ att.result = "success"

\* C25: after a successful rename the page's current handle is the new handle (so
\* that a following rename in the same session releases the new handle and not the
\* old one, which is already released).
C25_CurrentHandleFollowsRename ==
  PageRenamed => currentFname = att.new

\* the inline page stores the new handle on success
InlineCurrentHandleFollowsRename ==
  (PageRenamed /\ pageVersion = "inline") => currentFname = att.new

\* getCurrentFnameFromFid returned none, without an error
GaveNone == ~att.threw /\ att.value = Null

\* C26: getCurrentFnameFromFid returns none without an error when the directory
\* answers 404 or gives an empty or missing transfer list; it fails with an error,
\* and does not return none, on every other non-success status; for an identifier
\* <= 0 it returns none without contacting the directory.
C26_LookupOutcomes ==
  att.pc = "returned" =>
    /\ att.fid <= 0 => GaveNone /\ att.requests = 0
    /\ (att.fid > 0 /\ att.status = 404) => GaveNone
    /\ (att.fid > 0 /\ att.status = 200 /\ (~att.listed \/ transfers = <<>>)) => GaveNone
    /\ (att.fid > 0 /\ att.status \notin {0, 404} /\ ~IsOk(att.status)) => att.threw

\* the directory answered 500 about an identifier that has a history
C26_Witness ==
  /\ att.pc = "returned" /\ att.fid = Fid /\ att.requests = 1
  /\ att.status = 500 /\ att.threw /\ transfers # <<>>

\* the other cases of C26 are reached: 404, a body without a list, identifier -1
C26_NoneCases ==
  att.pc = "returned" /\ transfers # <<>> /\ GaveNone
  /\ \/ att.fid = Fid /\ att.status = 404
     \/ att.fid = Fid /\ att.status = 200 /\ ~att.listed
     \/ att.fid = -1 /\ att.requests = 0

\* C27: when the availability lookup fails (a status that is neither a success nor
\* 404, or a network error), the attempt fails at the availability stage: the handle
\* is not taken for available, no signature is requested and no transfer submitted.
C27_LookupFailureStopsAttempt ==
  att.isTaken = "throw" =>
    /\ att.pc = "failed" /\ att.result = "error" /\ att.failedStage = "check"
    /\ att.log = <<"check">> /\ att.completed = <<>>
    /\ att.deleteSignatureData.signature = NoSig
    /\ att.registerSignatureData.signature = NoSig
    /\ att.sent = <<>> /\ att.apiCalls = 0
    /\ att.rel = NoResponse /\ att.claim = NoResponse

\* the lookup of the page's attempt was answered 500 and the attempt has failed
C27_Witness ==
  /\ att.flow = "page" /\ att.isTaken = "throw" /\ att.pc = "failed"
  /\ att.message = <<"Failed to check username availability (status ", "500", ")">>

\* C28: the claim timestamp is max(release timestamp + 1, now), where the release
\* timestamp was read before the release signing started and now is read after the
\* release signing completed; the release timestamp is not computed again once the
\* release signature exists: the signature and the release body carry it as read.
C28_ClaimTimestampRule ==
  /\ att.pc \in {"signRelease", "signClaim", "signed"} =>
       att.deleteTimestamp = UnixSeconds(att.readMs[1])
  /\ att.pc \in {"signClaim", "signed"} =>
       /\ Len(att.readMs) = 2
       /\ att.registerTimestamp = Max(att.deleteTimestamp + 1, UnixSeconds(att.readMs[2]))
       /\ att.deleteSignatureData.timestamp = att.deleteTimestamp
       /\ att.deleteSignatureData.signature.timestamp = att.deleteTimestamp
  /\ att.pc = "signed" =>
       /\ att.sent[1].timestamp = att.deleteTimestamp
       /\ att.sent[2].timestamp = att.registerTimestamp
       /\ att.sent[2].signature.timestamp = att.registerTimestamp

\* the second reading is two seconds past the first: the claim takes the reading
C28_Witness ==
  /\ att.pc = "signed" /\ att.flow = "page"
  /\ att.deleteTimestamp = 1 /\ att.readMs[2] = 3000 /\ att.registerTimestamp = 3

\* the clock moved backward between the readings: the claim takes release + 1
C28_BackwardClock ==
  /\ att.pc = "signed" /\ att.flow = "execute"
  /\ att.deleteTimestamp = 3 /\ att.readMs[2] = 1000 /\ att.registerTimestamp = 4

\* the hook shows a handle: it is mounted, not loading, and currentFname is set
ShowsHandle == att.pc = "mounted" /\ ~att.isLoadingCurrentFname /\ currentFname # Null

\* C30: a lookup of the current handle that settles after the identifier changed or
\* the component unmounted never writes to currentFname or to the loading flag:
\* whenever isLoadingCurrentFname is false and currentFname is non-null, currentFname
\* is the result of a lookup made for the identifier currently held.
C30_HandleIsOfHeldIdentifier ==
  ShowsHandle => att.origin = att.fetchedFid

\* what does hold: once the effect has run for the identifier held, the handle shown
\* comes from a lookup for that identifier
HandleIsOfEffectIdentifier ==
  (ShowsHandle /\ att.effectFid = att.fetchedFid) => att.origin = att.fetchedFid

\* what does hold: after the cleanup of its effect a lookup writes nothing, and an
\* unmounted hook is never written to
CleanedUpLookupWritesNothing ==
  [][ /\ att.pc = "unmounted" => UNCHANGED <<currentFname>>
      /\ \A l \in att.lookups :
           (~l.isMounted /\ att'.lookups = att.lookups \ {l} /\ att'.pc = att.pc)
             => /\ currentFname' = currentFname
                /\ att'.isLoadingCurrentFname = att.isLoadingCurrentFname ]_vars

\* C31: in the page flow no rename attempt starts (no availability check, no
\* signature request, no submission) unless the wallet is connected, the identifier
\* is known and non-zero, a current handle is known, and the new handle is non-empty,
\* passes the format check and differs from the current handle.
C31_StartNeedsPreconditions ==
  (att.pc = "clicked" /\ att.log # <<>>) =>
     /\ att.conn.isConnected /\ att.conn.address
     /\ att.conn.fid # 0
     /\ currentFname # Null
     /\ newFname # <<>> /\ formatCheck(newFname) /\ newFname # currentFname

\* an attempt did start from the dialog of the hook page
C31_Witness ==
  /\ att.pc = "clicked" /\ att.outcome = "start" /\ att.log = <<"check">>
  /\ pageVersion = "hook" /\ currentFname = <<"a">> /\ newFname = <<"b">>

\* every precondition alone keeps the attempt from starting
C31_Refusals ==
  /\ att.pc = "clicked" /\ att.outcome # "start" /\ att.conn.phrase
  /\ att.conn.isConnected /\ att.conn.address /\ att.conn.fid # 0
  /\ currentFname # Null /\ newFname = <<"b", "-">>

\* C32: at most one rename attempt is in progress per page at any time: while
\* isLoading is true neither the Rename button nor the Confirm button can start a
\* second attempt, so two attempts of a page never interleave their steps.
C32_OneAttemptAtATime ==
  /\ Len(att.running) <= 1
  /\ att.running # <<>> => isLoading /\ RenameDisabled /\ ConfirmDisabled

\* a second attempt is running, started after the first one ended
C32_Witness ==
  /\ attempts = 2 /\ Len(att.running) = 1 /\ att.running[1].stage = "signClaim"
  /\ isLoading

\* no two attempts of the page are in flight
OneRunning == Len(att.running) <= 1

\* a rename attempt of the page is under way; it has ended
PageRunning == att.flow = "page" /\ att.pc \notin {"idle", "done", "failed"}
PageEnded == att.flow = "page" /\ att.pc \in {"done", "failed"}

\* C33: if every signing and network round-trip eventually completes, every started
\* rename attempt of the page eventually ends in success or failure, and when it has
\* ended isLoading is false and the confirmation dialog is closed, whichever stage
\* failed.
C33_AttemptEnds ==
  /\ [](PageEnded => (~isLoading /\ ~isConfirmDialogOpen
                       /\ att.result \in {"success", "error"}))
  /\ (PageRunning ~> PageEnded)

\* an attempt of the hook page, whose dialog stays open while it runs, has failed at
\* the signing of the claim
C33_Witness ==
  /\ PageEnded /\ pageVersion = "hook" /\ att.failedStage = "signClaim"
  /\ ~isLoading /\ ~isConfirmDialogOpen

\* a request whose fields are all valid and whose registerTimestamp is not after its
\* deleteTimestamp
Unordered(p) ==
  /\ ~p.unparsable
  /\ p.currentFname = <<"a">> /\ p.newFname = <<"b">> /\ p.fid = Fid /\ p.owner = Owner
  /\ p.deleteSignature # NoSig /\ p.registerSignature # NoSig
  /\ p.deleteTimestamp > 0 /\ p.registerTimestamp > 0
  /\ p.registerTimestamp <= p.deleteTimestamp

\* C34: POST /api/rename does not compare the two timestamps: a schema-valid request
\* whose registerTimestamp is less than or equal to its deleteTimestamp is forwarded
\* like any other, as a release submission followed by a claim submission.
C34_UnorderedTimestampsForwarded ==
  (att.flow = "api" /\ Handled /\ Unordered(att.payload)) =>
     LET p == att.payload IN
       /\ att.http # 400
       /\ Len(att.sent) >= 1
       /\ att.sent[1] = ReleaseBody(p.currentFname, p.owner, p.deleteSignature,
                                    p.deleteTimestamp, p.fid)
       /\ TwoXX(att.rel) => (att.pc = "delay" \/ Len(att.sent) = 2)
       /\ Len(att.sent) = 2 =>
            att.sent[2] = ClaimBody(p.newFname, p.owner, p.registerSignature,
                                    p.registerTimestamp, p.fid)

\* a request with registerTimestamp 1 and deleteTimestamp 2 was answered 200 after
\* both submissions
C34_Witness ==
  /\ att.flow = "api" /\ Handled /\ Unordered(att.payload)
  /\ att.payload.registerTimestamp < att.payload.deleteTimestamp
  /\ att.http = 200 /\ Len(att.sent) = 2 /\ TwoXX(att.claim)

\* the orders in which the directory can return the same records
Reorderings(records) ==
  LET n == Len(records)
      Bijections == {f \in [1..n -> 1..n] : \A i, j \in 1..n : f[i] = f[j] => i = j}
  IN  { [i \in 1..n |-> records[f[i]]] : f \in Bijections }

\* what getCurrentFnameFromFid returns when the directory answers 200 with the records
LookupOf(records) ==
  getCurrentFnameFromFid(Fid, [kind |-> "resp", status |-> 200, listed |-> TRUE,
                               transfers |-> records])

\* C35: the result of getCurrentFnameFromFid depends only on the set of records of
\* the identifier, not on the order in which the directory returns them: for every
\* permutation of the same records, equal timestamps included, the result is the same.
C35_OrderIndependent ==
  Looked => \A records \in Reorderings(transfers) : LookupOf(records).value = att.value

\* what does hold: when no two records have the same timestamp the order does not
\* matter
DistinctStampsOrderIndependent ==
  ( /\ Looked
    /\ \A i, j \in 1..Len(transfers) :
         transfers[i].timestamp = transfers[j].timestamp => i = j )
  => \A records \in Reorderings(transfers) : LookupOf(records).value = att.value

\* the attempt runs the whole rename, directly or through the page and the endpoint
WholeRename == att.flow \in {"execute", "page"}

\* the stage at which an attempt that failed must have stopped, given what the
\* availability check, the signer and the directory answered
ExpectedFailedStage ==
  IF att.isTaken # "false" THEN "check"
  ELSE IF att.deleteSignatureData.signature = NoSig THEN "signRelease"
  ELSE IF att.registerSignatureData.signature = NoSig THEN "signClaim"
  ELSE IF ~TwoXX(att.rel) THEN "submitRelease"
  ELSE "submitClaim"

\* the submissions an attempt must have sent when it stopped at a stage
ExpectedSent(stage) ==
  LET release == ReleaseBody(att.cur, att.owner,
                             Sig(att.cur, att.owner, att.deleteTimestamp),
                             att.deleteTimestamp, att.fid)
      claim == ClaimBody(att.new, att.owner,
                         Sig(att.new, att.owner, att.registerTimestamp),
                         att.registerTimestamp, att.fid)
  IN  IF stage \in {"check", "signRelease", "signClaim"} THEN <<>>
      ELSE IF stage = "submitRelease" THEN <<release>>
      ELSE <<release, claim>>

\* the attempt failed, and not because the page could not reach /api/rename
FailedInProtocol ==
  WholeRename /\ att.pc = "failed" /\ att.failedStage # "apiRequest"

\* C36: for the same inputs and the same answers of the directory, the direct path
\* (executeFnameRename) and the relayed path (the page's signing, then POST
\* /api/rename) send the same submissions with the same fields, release then claim,
\* stop at the same stage on failure, and both disclose a partial failure when the
\* claim is answered non-2xx after a successful release: what either path sends,
\* where it stops and what it discloses is one function of the inputs and answers.
C36_PathsAgree ==
  /\ WholeRename => IsPrefix(att.sent, ExpectedSent("submitClaim"))
  /\ FailedInProtocol =>
       /\ att.failedStage = ExpectedFailedStage
       /\ att.sent = ExpectedSent(att.failedStage)
  /\ (WholeRename /\ att.pc = "done") => att.sent = ExpectedSent("submitClaim")
  /\ (FailedInProtocol /\ TwoXX(att.rel) /\ NonTwoXX(att.claim)) =>
       DisclosesRelease(att.message, att.cur)

\* the relayed path stopped at the claim after a successful release
C36_Witness ==
  /\ att.flow = "page" /\ att.pc = "failed" /\ att.failedStage = "submitClaim"
  /\ TwoXX(att.rel) /\ NonTwoXX(att.claim) /\ Len(att.sent) = 2
  /\ DisclosesRelease(att.message, att.cur)

\* the direct path stopped at the same stage on the same answers
C36_DirectWitness ==
  /\ att.flow = "execute" /\ att.pc = "failed" /\ att.failedStage = "submitClaim"
  /\ TwoXX(att.rel) /\ NonTwoXX(att.claim) /\ Len(att.sent) = 2
  /\ att.cur = <<"a">> /\ att.new = <<"b">>
  /\ DisclosesRelease(att.message, att.cur)

\* the page has computed the claim timestamp of its attempt
PageStamped == att.flow = "page" /\ att.pc \in {"signClaim", "signed"}

\* C37: in the page flow the wait-and-recompute branch guarded by
\* registerTimestamp === deleteTimestamp is never taken: after
\* registerTimestamp = max(deleteTimestamp + 1, now) the guard is false for every
\* deleteTimestamp and every reading of the clock, so the claim timestamp is never
\* replaced by a bare reading of the clock, which could be at or below the release
\* timestamp.
C37_WaitBranchNeverTaken ==
  /\ \A deleteTimestamp \in 0..(MaxStampTicks + 1), nowMs \in StampClockMs :
       ~PageWaits(deleteTimestamp, nowMs)
  /\ PageStamped =>
       /\ ~att.waited
       /\ att.registerTimestamp = Max(att.deleteTimestamp + 1, UnixSeconds(att.readMs[2]))
       /\ att.registerTimestamp > att.deleteTimestamp

\* the page computed the claim timestamp with the clock at or behind the second of
\* the release timestamp, and signed the claim with deleteTimestamp + 1
C37_Witness ==
  /\ att.flow = "page" /\ att.pc = "signed"
  /\ UnixSeconds(att.readMs[2]) <= att.deleteTimestamp
  /\ att.readMs[2] < att.readMs[1]
  /\ ~att.waited
  /\ att.registerSignatureData.timestamp = att.deleteTimestamp + 1

====
